---- MODULE Spec2Model ----
(***************************************************************************)
(* Oat: shared-memory dataflow nodes (one sink, up to MAX_SOURCES sources) *)
(* and the components of the repository that drive them.                   *)
(*                                                                         *)
(* The node itself (lib/shmemdf: Node, Sink, Source) is not among the      *)
(* sources at hand; its operations are modelled from the specification     *)
(* (sections 3, 4.2-4.4) and are marked so in the map.  The endpoints that *)
(* call them are modelled from the components' code: the source loop and   *)
(* the sink loop of Decorator::process, Decorator::connectToNode, the run  *)
(* loops of the mains, Viewer::process / Viewer::processAsync, and the two  *)
(* threads of FrameBuffer (connectToNode and push on one, pop on the        *)
(* other).  The Buffer's downstream node is kept as two facts: its          *)
(* sink_state and whether its sources have released the last sample.       *)
(* Buffer.h is not at hand either: the ring's capacity, the setting of the  *)
(* shutdown flag and the Buffer's destruction follow section 4.5.          *)
(*                                                                         *)
(* Barrier accounting.  attach_as_source hands out a slot, "an index used  *)
(* by protocol barriers", and consume_begin/consume_end take that slot, so *)
(* the two counting barriers are kept per slot: read_slot[s] is the part   *)
(* of read_barrier owed to slot s and write_slot[s] the part of            *)
(* write_barrier held for slot s.  The header's read_barrier and           *)
(* write_barrier are the sums: 0 and MAX_SOURCES at creation.              *)
(* publish_begin waits until every attached slot holds a write token; the  *)
(* sink takes those tokens ("decremented by sink before publish") in the   *)
(* same step in which publish_end releases the read tokens, so the slots   *)
(* it takes from and the slots it releases to are the same                 *)
(* source_ref_count slots even when a source attaches while the sink is    *)
(* writing.  A slot that is given up returns to its initial accounting.    *)
(* Source<T>::wait returns the END sentinel whenever sink_state is END     *)
(* ("END is terminal; any wait returns END sentinel").                     *)
(***************************************************************************)
EXTENDS Naturals, Integers, Sequences, FiniteSets, TLC

\* Largest number of sources a node accepts (the specification's default is
\* 10; it may be overridden by the environment).
MAX_SOURCES == 2

\* The sink stops publishing after this many samples.
MaxSample == 3

Slots == 1..MAX_SOURCES

\* Source processes: one more than the node accepts, so that saturation and
\* the reuse of a slot happen.
Procs == 1..(MAX_SOURCES + 1)

\* Processes that try to bind the node as its sink.
Sinks == {1, 2}

\* The process that runs a Viewer in ViewerSpec.
ViewerProc == 1

\* The process that runs a FrameBuffer in the Buffer specifications.
BufProc == 1

\* Capacity of the ring.
BUFFSIZE == 2

\* The process whose main runs the driver loop in the driver specifications.
DrvProc == 1

\* Largest position of the BLUR trackbar and largest blur option.
MaxBlur == 2

\* Most frames passed to the DifferenceDetector.
MaxCalls == 3

\* The number of bits of a sample count (64 in the program).
EncodeBits == 3

\* The widest frame given to the Decorator.
MaxCols == 18

\* Longest list of source names given to the recorder.
MaxLen == 3

\* The process that runs the experimental client in MatSpec.
MatProc == 1

\* Samples a producer of the graph publishes before it departs.
MaxFrames == 2

VARIABLES
    \* node header (shared memory)
    sink_state,         \* "UNDEFINED", "BOUND", "END"
    source_ref_count,   \* number of attached sources
    sample_number,      \* samples published so far
    read_slot,          \* slot -> read tokens owed to the slot
    write_slot,         \* slot -> write tokens held for the slot
    payload_params,     \* {} until written, then {the sink that declared them}
    \* sink endpoints
    spc,                \* sink -> "start", "bound", "cs", "gone", "failed"
    sink_err,           \* sink -> "none", "AlreadyBound"
    \* source endpoints
    pc,                 \* proc -> "start", "touched", "ready", "cs", "eof",
                        \*         "gone", "failed"
    slot,               \* proc -> its slot, 0 when it holds none
    src_err,            \* proc -> "none", "Saturated"
    att,                \* proc -> sample_number when it attached
    seen,               \* proc -> the sample numbers its waits returned
    \* Viewer (process ViewerProc in ViewerSpec)
    sample_,            \* "null" or "shared": the view retrieve() returned
    display_complete_,  \* BOOLEAN
    running_,           \* BOOLEAN
    refresh_needed,     \* BOOLEAN, local of Viewer::process
    dpc,                \* display thread: "loop", "tested", "wait", "woken",
                        \*                 "running", "display", "exit"
    \* FrameBuffer (process BufProc in the Buffer specifications)
    buffer_,            \* the ring: sample numbers queued, oldest first
    sink_running_,      \* BOOLEAN, tested by the pop thread's loop
    ppc,                \* pop thread: "idle", "loop", "waitfor", "notified",
                        \*             "check", "sinkwait", "cs", "exit"
    buf_params,         \* <<>>, then <<what source_.parameters() returned>>
    out,                \* sample numbers published on the downstream node
    cerr_overruns,      \* "Buffer overrun." lines written to std::cerr
    down_state,         \* sink_state of the downstream node
    down_ready,         \* downstream sources have released the last sample
    \* segment of the node
    removals,           \* times the segment was removed
    stale_access,       \* an endpoint used the header after a removal
    \* driver loop of a component's main (process DrvProc in DrvSpec)
    quit,               \* the flag the SIGINT handler sets
    source_eof,         \* what the last process() call returned
    rpc,                \* main: "test", "process", "exited"
    exit_code,          \* "none" until main returns, then its value
    calls,              \* process() calls made by run()
    \* graph of nodes around a Decorator
    n_state,            \* node -> "UNDEFINED", "BOUND", "END"
    n_num,              \* node -> samples published so far
    n_att,              \* node -> the readers attached
    n_rd,               \* node -> attached readers owed a read token
    n_busy,             \* node -> attached readers whose write token is out
    prodpc,             \* producer of a node -> "start", "bound", "cs",
                        \*                       "gone"
    detpc,              \* detector: "start", "touched", "ready", "fcs",
                        \*           "detected", "pcs", "eof", "gone"
    decpc,              \* Decorator: "start", "touched", "fconnected",
                        \*            "ready", "fcs", "poses", "pcs", "scs",
                        \*            "returned", "refused", "gone"
    pose_sources_,      \* the nodes of the pose sources, in list order
    pose_i,             \* the index i of the pose loop
    frame,              \* local of process(): the frame sample copied
    poses,              \* local of process(): the pose samples cloned
    ret,                \* "none" inside a call, else what process() returned
    saw_end,            \* a wait of the current call returned END
    sink_pairs,         \* frame_sink_ wait/post pairs of the current call
    n_ret0,             \* calls of process() that returned 0
    dec_frames,         \* frame samples the Decorator consumed, in order
    dec_poses,          \* pose index -> samples consumed from that source
    published,         \* what was published on the sink: <<frame, poses>>
    \* recorder main: option parsing
    argv_positions,     \* the --position-sources list given
    argv_frames,        \* the --image-sources list given
    position_sources,   \* the list after parsing
    frame_sources,      \* the list after parsing
    warnings,           \* the warnings written to std::cerr
    recpc,              \* "start", "positions", "parsed"
    \* Position2D
    p_this,             \* the receiver (a record of the struct's fields)
    p_before,           \* the receiver as it was before the last call
    p_ret,              \* what the last call returned
    p2pc,               \* "start", "made", "converted", "again"
    \* DifferenceDetector
    last_image_,        \* a frame: tuple of pixel values
    last_image_set_,    \* BOOLEAN
    threshold_frame_,   \* a frame
    blur_on_,           \* BOOLEAN
    blur_size_,         \* [width, height]
    difference_intensity_threshold_,
    dd_in,              \* the frames passed to applyThreshold, in order
    \* Decorator::encodeSampleNumber
    enc_frame,          \* [cols, count, px]: the frame's top row
    encode_bit_size_,   \* set by connectToNode
    encpc               \* "new", "connected", "encoded", "threw"

hdr == <<sink_state, source_ref_count, sample_number, read_slot, write_slot,
         payload_params>>
snk == <<spc, sink_err>>
src == <<pc, slot, src_err, att, seen>>
vwr == <<sample_, display_complete_, running_, refresh_needed, dpc>>
buf == <<buffer_, sink_running_, ppc, buf_params, out, cerr_overruns,
         down_state, down_ready>>
seg == <<removals, stale_access>>
drv == <<quit, source_eof, rpc, exit_code, calls>>
net == <<n_state, n_num, n_att, n_rd, n_busy, prodpc, detpc, decpc,
         pose_sources_, pose_i, frame, poses, ret, saw_end, sink_pairs,
         n_ret0, dec_frames, dec_poses, published>>
rec == <<argv_positions, argv_frames, position_sources, frame_sources,
         warnings, recpc>>
p2d == <<p_this, p_before, p_ret, p2pc>>
dd == <<last_image_, last_image_set_, threshold_frame_, blur_on_, blur_size_,
        difference_intensity_threshold_, dd_in>>
enc == <<enc_frame, encode_bit_size_, encpc>>
aux == <<rec, p2d, dd, enc>>
vars == <<hdr, snk, src, vwr, buf, seg, drv, net, aux>>

----
\* Helpers

RECURSIVE SumOver(_, _)
SumOver(f, S) ==
    IF S = {} THEN 0
    ELSE LET x == CHOOSE y \in S : TRUE IN f[x] + SumOver(f, S \ {x})

\* The header's two counting semaphores.
read_barrier == SumOver(read_slot, Slots)
write_barrier == SumOver(write_slot, Slots)

\* Slots held by an attached source.
UsedSlots == {slot[p] : p \in {q \in Procs : slot[q] # 0}}

Attached(p) == slot[p] # 0

Last(s) == s[Len(s)]

Range(s) == {s[i] : i \in 1..Len(s)}

----
\* The node (lib/shmemdf), from the specification.

\* Header of a freshly created segment.
NodeInit ==
    /\ sink_state = "UNDEFINED"
    /\ source_ref_count = 0
    /\ sample_number = 0
    /\ read_slot = [s \in Slots |-> 0]
    /\ write_slot = [s \in Slots |-> 1]
    /\ payload_params = {}

\* Variant: a bind that does not look at sink_state.
bind_as_sink_Unchecked(k) ==
    /\ payload_params' = {k}
    /\ sink_state' = "BOUND"
    /\ UNCHANGED <<source_ref_count, sample_number, read_slot, write_slot>>

\* bind_as_sink: exclusive; declares the payload parameters, then BOUND.
bind_as_sink(k) ==
    /\ sink_state = "UNDEFINED"
    /\ payload_params' = {k}
    /\ sink_state' = "BOUND"
    /\ UNCHANGED <<source_ref_count, sample_number, read_slot, write_slot>>

\* attach_as_source: atomically increments the reference count and reserves a
\* slot; fails (Saturated) when MAX_SOURCES sources are attached.
FreeSlot ==
    IF Slots \ UsedSlots = {} THEN 0
    ELSE CHOOSE s \in Slots \ UsedSlots : \A t \in Slots \ UsedSlots : s <= t

\* Variant: the saturation test is off by one.
attach_as_source_ok_OffByOne == source_ref_count <= MAX_SOURCES

attach_as_source_ok == source_ref_count < MAX_SOURCES

attach_as_source ==
    /\ attach_as_source_ok
    /\ source_ref_count' = source_ref_count + 1
    /\ UNCHANGED <<sink_state, sample_number, read_slot, write_slot,
                   payload_params>>

\* Variant: a departing source leaves its slot's tokens as they are.
detach_source_NoReset(s) ==
    /\ source_ref_count' = source_ref_count - 1
    /\ UNCHANGED <<sink_state, sample_number, read_slot, write_slot,
                   payload_params>>

\* A departing source decrements the reference count; its slot goes back to
\* the accounting of an unused slot.
detach_source(s) ==
    /\ source_ref_count' = source_ref_count - 1
    /\ read_slot' = [read_slot EXCEPT ![s] = 0]
    /\ write_slot' = [write_slot EXCEPT ![s] = 1]
    /\ UNCHANGED <<sink_state, sample_number, payload_params>>

\* publish_begin: the sink waits on write_barrier until the count of
\* released slots equals source_ref_count.
publish_begin_ready ==
    Cardinality({s \in UsedSlots : write_slot[s] > 0}) = source_ref_count

\* publish_end: takes the write tokens of the attached slots, increments
\* sample_number and releases read_barrier by source_ref_count.
publish_end ==
    /\ sample_number' = sample_number + 1
    /\ write_slot' = [s \in Slots |->
                        IF s \in UsedSlots THEN write_slot[s] - 1
                        ELSE write_slot[s]]
    /\ read_slot' = [s \in Slots |->
                        IF s \in UsedSlots THEN read_slot[s] + 1
                        ELSE read_slot[s]]
    /\ UNCHANGED <<sink_state, source_ref_count, payload_params>>

\* consume_begin: decrements read_barrier, blocks until positive.
consume_begin_ready(s) == read_slot[s] > 0

consume_begin(s) ==
    /\ consume_begin_ready(s)
    /\ read_slot' = [read_slot EXCEPT ![s] = @ - 1]
    /\ UNCHANGED <<sink_state, source_ref_count, sample_number, write_slot,
                   payload_params>>

\* consume_end: increments write_barrier.
consume_end(s) ==
    /\ write_slot' = [write_slot EXCEPT ![s] = @ + 1]
    /\ UNCHANGED <<sink_state, source_ref_count, sample_number, read_slot,
                   payload_params>>

\* The sink's departure: sink_state = END.
sink_end ==
    /\ sink_state' = "END"
    /\ UNCHANGED <<source_ref_count, sample_number, read_slot, write_slot,
                   payload_params>>

\* Source<T>::wait returns END once the sink has departed, whatever the
\* read barrier holds.
wait_returns_end == sink_state = "END"

\* Source<T>::connect returns once the node is BOUND or END.
connect_ready == sink_state \in {"BOUND", "END"}

----
\* Sink endpoint: Decorator::connectToNode (bind) and the sink half of
\* Decorator::process.

\* frame_sink_.bind(): a bind on a node that is not UNDEFINED throws.
SinkBind(k) ==
    /\ spc[k] = "start"
    /\ \/ /\ bind_as_sink(k)
          /\ spc' = [spc EXCEPT ![k] = "bound"]
          /\ UNCHANGED sink_err
       \/ /\ sink_state # "UNDEFINED"
          /\ spc' = [spc EXCEPT ![k] = "failed"]
          /\ sink_err' = [sink_err EXCEPT ![k] = "AlreadyBound"]
          /\ UNCHANGED hdr
    /\ UNCHANGED <<src, vwr>>
    /\ UNCHANGED <<buf, seg>>
    /\ UNCHANGED <<drv, net>>
    /\ UNCHANGED aux

\* Variant: the sink writes without waiting for the sources.
SinkWait_NoBarrier(k) ==
    /\ spc[k] = "bound"
    /\ sample_number < MaxSample
    /\ spc' = [spc EXCEPT ![k] = "cs"]
    /\ UNCHANGED <<hdr, sink_err, src, vwr>>
    /\ UNCHANGED <<buf, seg>>
    /\ UNCHANGED <<drv, net>>
    /\ UNCHANGED aux

\* Variant: the sink goes on as soon as one attached source has released.
SinkWait_Quorum(k) ==
    /\ spc[k] = "bound"
    /\ sample_number < MaxSample
    /\ \/ source_ref_count = 0
       \/ \E s \in UsedSlots : write_slot[s] > 0
    /\ spc' = [spc EXCEPT ![k] = "cs"]
    /\ UNCHANGED <<hdr, sink_err, src, vwr>>
    /\ UNCHANGED <<buf, seg>>
    /\ UNCHANGED <<drv, net>>
    /\ UNCHANGED aux

\* frame_sink_.wait(): entry to the sink's critical section.
SinkWait(k) ==
    /\ spc[k] = "bound"
    /\ sample_number < MaxSample
    /\ publish_begin_ready
    /\ spc' = [spc EXCEPT ![k] = "cs"]
    /\ UNCHANGED <<hdr, sink_err, src, vwr>>
    /\ UNCHANGED <<buf, seg>>
    /\ UNCHANGED <<drv, net>>
    /\ UNCHANGED aux

\* Variant: a post that releases the sources without counting the sample.
SinkPost_NoCount(k) ==
    /\ spc[k] = "cs"
    /\ write_slot' = [s \in Slots |->
                        IF s \in UsedSlots THEN write_slot[s] - 1
                        ELSE write_slot[s]]
    /\ read_slot' = [s \in Slots |->
                        IF s \in UsedSlots THEN read_slot[s] + 1
                        ELSE read_slot[s]]
    /\ spc' = [spc EXCEPT ![k] = "bound"]
    /\ UNCHANGED <<sink_state, source_ref_count, sample_number,
                   payload_params, sink_err, src, vwr>>
    /\ UNCHANGED <<buf, seg>>
    /\ UNCHANGED <<drv, net>>
    /\ UNCHANGED aux

\* Variant: a post that releases every slot of the node, attached or not.
SinkPost_ReleaseAll(k) ==
    /\ spc[k] = "cs"
    /\ sample_number' = sample_number + 1
    /\ write_slot' = [s \in Slots |->
                        IF s \in UsedSlots THEN write_slot[s] - 1
                        ELSE write_slot[s]]
    /\ read_slot' = [s \in Slots |-> read_slot[s] + 1]
    /\ spc' = [spc EXCEPT ![k] = "bound"]
    /\ UNCHANGED <<sink_state, source_ref_count, payload_params, sink_err,
                   src, vwr>>
    /\ UNCHANGED <<buf, seg>>
    /\ UNCHANGED <<drv, net>>
    /\ UNCHANGED aux

\* frame.copyTo(shared_frame_); frame_sink_.post().
SinkPost(k) ==
    /\ spc[k] = "cs"
    /\ publish_end
    /\ spc' = [spc EXCEPT ![k] = "bound"]
    /\ UNCHANGED <<sink_err, src, vwr>>
    /\ UNCHANGED <<buf, seg>>
    /\ UNCHANGED <<drv, net>>
    /\ UNCHANGED aux

\* Variant: a sink that never bound the node also declares END when it goes.
SinkDepart_Unbound(k) ==
    /\ spc[k] \in {"start", "bound"}
    /\ sink_end
    /\ spc' = [spc EXCEPT ![k] = "gone"]
    /\ UNCHANGED <<sink_err, src, vwr>>
    /\ UNCHANGED <<buf, seg>>
    /\ UNCHANGED <<drv, net>>
    /\ UNCHANGED aux

\* The component leaves its loop and its sink is destroyed.
SinkDepart(k) ==
    /\ spc[k] = "bound"
    /\ sink_end
    /\ spc' = [spc EXCEPT ![k] = "gone"]
    /\ UNCHANGED <<sink_err, src, vwr>>
    /\ UNCHANGED <<buf, seg>>
    /\ UNCHANGED <<drv, net>>
    /\ UNCHANGED aux

----
\* Source endpoint: Decorator::connectToNode (touch, connect) and the source
\* half of Decorator::process.

\* frame_source_.touch(): reserves a slot or throws.
SourceTouch(p) ==
    /\ pc[p] = "start"
    /\ \/ /\ attach_as_source
          /\ pc' = [pc EXCEPT ![p] = "touched"]
          /\ slot' = [slot EXCEPT ![p] = FreeSlot]
          /\ att' = [att EXCEPT ![p] = sample_number]
          /\ UNCHANGED src_err
       \/ /\ ~attach_as_source_ok
          /\ pc' = [pc EXCEPT ![p] = "failed"]
          /\ src_err' = [src_err EXCEPT ![p] = "Saturated"]
          /\ UNCHANGED <<hdr, slot, att>>
    /\ UNCHANGED <<snk, seen, vwr>>
    /\ UNCHANGED <<buf, seg>>
    /\ UNCHANGED <<drv, net>>
    /\ UNCHANGED aux

\* if (frame_source_.connect() != SourceState::CONNECTED) return false;
SourceConnect(p) ==
    /\ pc[p] = "touched"
    /\ connect_ready
    /\ pc' = [pc EXCEPT ![p] = IF sink_state = "END" THEN "eof" ELSE "ready"]
    /\ UNCHANGED <<hdr, snk, slot, src_err, att, seen, vwr>>
    /\ UNCHANGED <<buf, seg>>
    /\ UNCHANGED <<drv, net>>
    /\ UNCHANGED aux

\* Variant: a wait that returns without a new sample having been published.
SourceWait_NoBlock(p) ==
    /\ pc[p] \in {"ready", "eof"}
    /\ \/ /\ wait_returns_end
          /\ pc' = [pc EXCEPT ![p] = "eof"]
          /\ UNCHANGED <<hdr, seen>>
       \/ /\ ~wait_returns_end
          /\ read_slot' = [read_slot EXCEPT
                             ![slot[p]] = IF @ > 0 THEN @ - 1 ELSE 0]
          /\ UNCHANGED <<sink_state, source_ref_count, sample_number,
                         write_slot, payload_params>>
          /\ pc' = [pc EXCEPT ![p] = "cs"]
          /\ seen' = [seen EXCEPT ![p] = Append(@, sample_number)]
    /\ UNCHANGED <<snk, slot, src_err, att, vwr>>
    /\ UNCHANGED <<buf, seg>>
    /\ UNCHANGED <<drv, net>>
    /\ UNCHANGED aux

\* Variant: a wait that only watches the read barrier, never the sink state.
SourceWait_IgnoresEnd(p) ==
    /\ pc[p] = "ready"
    /\ consume_begin(slot[p])
    /\ pc' = [pc EXCEPT ![p] = "cs"]
    /\ seen' = [seen EXCEPT ![p] = Append(@, sample_number)]
    /\ UNCHANGED <<snk, slot, src_err, att, vwr>>
    /\ UNCHANGED <<buf, seg>>
    /\ UNCHANGED <<drv, net>>
    /\ UNCHANGED aux

\* if (frame_source_.wait() == oat::NodeState::END) return 1;
SourceWait(p) ==
    /\ pc[p] \in {"ready", "eof"}
    /\ \/ /\ wait_returns_end
          /\ pc' = [pc EXCEPT ![p] = "eof"]
          /\ UNCHANGED <<hdr, seen>>
       \/ /\ ~wait_returns_end
          /\ consume_begin(slot[p])
          /\ pc' = [pc EXCEPT ![p] = "cs"]
          /\ seen' = [seen EXCEPT ![p] = Append(@, sample_number)]
    /\ UNCHANGED <<snk, slot, src_err, att, vwr>>
    /\ UNCHANGED <<buf, seg>>
    /\ UNCHANGED <<drv, net>>
    /\ UNCHANGED aux

\* Variant: the source leaves its critical section without post().
SourcePost_NoRelease(p) ==
    /\ pc[p] = "cs"
    /\ pc' = [pc EXCEPT ![p] = "ready"]
    /\ UNCHANGED <<hdr, snk, slot, src_err, att, seen, vwr>>
    /\ UNCHANGED <<buf, seg>>
    /\ UNCHANGED <<drv, net>>
    /\ UNCHANGED aux

\* frame_source_.copyTo(frame); frame_source_.post();
SourcePost(p) ==
    /\ pc[p] = "cs"
    /\ consume_end(slot[p])
    /\ pc' = [pc EXCEPT ![p] = "ready"]
    /\ UNCHANGED <<snk, slot, src_err, att, seen, vwr>>
    /\ UNCHANGED <<buf, seg>>
    /\ UNCHANGED <<drv, net>>
    /\ UNCHANGED aux

\* while (!quit && !source_eof): quit is seen at the loop test; the component
\* leaves its loop and its source is destroyed.
SourceQuit(p) ==
    /\ pc[p] = "ready"
    /\ detach_source(slot[p])
    /\ pc' = [pc EXCEPT ![p] = "gone"]
    /\ slot' = [slot EXCEPT ![p] = 0]
    /\ UNCHANGED <<snk, src_err, att, seen, vwr>>
    /\ UNCHANGED <<buf, seg>>
    /\ UNCHANGED <<drv, net>>
    /\ UNCHANGED aux

\* The process of a source dies between wait() and post(): it never posts and
\* never gives up its slot.
SourceCrash(p) ==
    /\ pc[p] = "cs"
    /\ pc' = [pc EXCEPT ![p] = "crashed"]
    /\ UNCHANGED <<hdr, snk, slot, src_err, att, seen, vwr>>
    /\ UNCHANGED <<buf, seg>>
    /\ UNCHANGED <<drv, net>>
    /\ UNCHANGED aux

\* while (!quit && !source_eof): the loop ends after end of stream and the
\* source is destroyed.
SourceExit(p) ==
    /\ pc[p] = "eof"
    /\ detach_source(slot[p])
    /\ pc' = [pc EXCEPT ![p] = "gone"]
    /\ slot' = [slot EXCEPT ![p] = 0]
    /\ UNCHANGED <<snk, src_err, att, seen, vwr>>
    /\ UNCHANGED <<buf, seg>>
    /\ UNCHANGED <<drv, net>>
    /\ UNCHANGED aux

----
\* Departure and removal of the segment, from the specification: the
\* reference count is changed by an atomic add and the state flag by an atomic
\* store, two separate operations; an endpoint that departs then looks at the
\* other field, and removes the segment if it finds the node drained.
\* spc and pc also take the values "last" (a source whose decrement brought
\* the count to 0, before it has looked at sink_state) and "left".

\* A sink that departed has looked at source_ref_count.
SinkObserve(k) ==
    /\ spc[k] = "gone"
    /\ spc' = [spc EXCEPT ![k] = "left"]
    /\ stale_access' = (stale_access \/ removals > 0)
    /\ removals' = IF source_ref_count = 0 THEN removals + 1 ELSE removals
    /\ UNCHANGED <<hdr, sink_err, src, vwr, buf>>
    /\ UNCHANGED <<drv, net>>
    /\ UNCHANGED aux

\* A source departs: atomic decrement; it remembers whether the count
\* reached 0.
SourceRelease(p) ==
    /\ pc[p] \in {"ready", "eof"}
    /\ detach_source(slot[p])
    /\ pc' = [pc EXCEPT ![p] = IF source_ref_count = 1 THEN "last"
                               ELSE "left"]
    /\ slot' = [slot EXCEPT ![p] = 0]
    /\ UNCHANGED <<snk, src_err, att, seen, vwr, buf, seg>>
    /\ UNCHANGED <<drv, net>>
    /\ UNCHANGED aux

\* The source whose decrement reached 0 looks at sink_state.
SourceObserve(p) ==
    /\ pc[p] = "last"
    /\ pc' = [pc EXCEPT ![p] = "left"]
    /\ stale_access' = (stale_access \/ removals > 0)
    /\ removals' = IF sink_state # "BOUND" THEN removals + 1 ELSE removals
    /\ UNCHANGED <<hdr, snk, slot, src_err, att, seen, vwr, buf>>
    /\ UNCHANGED <<drv, net>>
    /\ UNCHANGED aux

----
\* Viewer: Viewer<T>::process on the calling thread, Viewer<T>::processAsync
\* on the display thread.  pc[ViewerProc] also takes the values "checked"
\* (refresh decided), "retrieved" (sample_ assigned if needed, before post)
\* and "posted" (after post, before notify).

ViewerInit ==
    /\ sample_ = "null"
    /\ display_complete_ = TRUE
    /\ running_ = TRUE
    /\ refresh_needed = FALSE
    /\ dpc = "loop"

\* if (source_.wait() == Node::State::end) return 1;
ViewerWait ==
    /\ pc[ViewerProc] = "ready"
    /\ \/ /\ wait_returns_end
          /\ pc' = [pc EXCEPT ![ViewerProc] = "eof"]
          /\ UNCHANGED <<hdr, seen>>
       \/ /\ ~wait_returns_end
          /\ consume_begin(slot[ViewerProc])
          /\ pc' = [pc EXCEPT ![ViewerProc] = "cs"]
          /\ seen' = [seen EXCEPT ![ViewerProc] = Append(@, sample_number)]
    /\ UNCHANGED <<snk, slot, src_err, att, vwr>>
    /\ UNCHANGED <<buf, seg>>
    /\ UNCHANGED <<drv, net>>
    /\ UNCHANGED aux

\* refresh_needed = duration > min_update_period_ms && display_complete_;
ViewerCheck ==
    /\ pc[ViewerProc] = "cs"
    /\ \E elapsed \in BOOLEAN :
          refresh_needed' = (elapsed /\ display_complete_)
    /\ pc' = [pc EXCEPT ![ViewerProc] = "checked"]
    /\ UNCHANGED <<hdr, snk, slot, src_err, att, seen, sample_,
                   display_complete_, running_, dpc>>
    /\ UNCHANGED <<buf, seg>>
    /\ UNCHANGED <<drv, net>>
    /\ UNCHANGED aux

\* if (refresh_needed) sample_ = source_.retrieve();
\* retrieve() hands out a view of the shared payload, not a copy.
ViewerRetrieve ==
    /\ pc[ViewerProc] = "checked"
    /\ sample_' = IF refresh_needed THEN "shared" ELSE sample_
    /\ pc' = [pc EXCEPT ![ViewerProc] = "retrieved"]
    /\ UNCHANGED <<hdr, snk, slot, src_err, att, seen, display_complete_,
                   running_, refresh_needed, dpc>>
    /\ UNCHANGED <<buf, seg>>
    /\ UNCHANGED <<drv, net>>
    /\ UNCHANGED aux

\* Variant: post() waits until the display thread is done with the sample.
ViewerPost_WaitsDisplay ==
    /\ pc[ViewerProc] = "retrieved"
    /\ display_complete_
    /\ consume_end(slot[ViewerProc])
    /\ pc' = [pc EXCEPT ![ViewerProc] = "posted"]
    /\ UNCHANGED <<snk, slot, src_err, att, seen, vwr>>
    /\ UNCHANGED <<buf, seg>>
    /\ UNCHANGED <<drv, net>>
    /\ UNCHANGED aux

\* source_.post();
ViewerPost ==
    /\ pc[ViewerProc] = "retrieved"
    /\ consume_end(slot[ViewerProc])
    /\ pc' = [pc EXCEPT ![ViewerProc] = "posted"]
    /\ UNCHANGED <<snk, slot, src_err, att, seen, vwr>>
    /\ UNCHANGED <<buf, seg>>
    /\ UNCHANGED <<drv, net>>
    /\ UNCHANGED aux

\* if (refresh_needed) { display_cv_.notify_one(); tock_ = Clock::now(); }
\* notify_one wakes the display thread only if it is waiting.
ViewerNotify ==
    /\ pc[ViewerProc] = "posted"
    /\ dpc' = IF refresh_needed /\ dpc = "wait" THEN "woken" ELSE dpc
    /\ refresh_needed' = FALSE
    /\ pc' = [pc EXCEPT ![ViewerProc] = "ready"]
    /\ UNCHANGED <<hdr, snk, slot, src_err, att, seen, sample_,
                   display_complete_, running_>>
    /\ UNCHANGED <<buf, seg>>
    /\ UNCHANGED <<drv, net>>
    /\ UNCHANGED aux

\* while (running_) {
DisplayLoop ==
    /\ dpc = "loop"
    /\ dpc' = IF running_ THEN "tested" ELSE "exit"
    /\ UNCHANGED <<hdr, snk, src, sample_, display_complete_, running_,
                   refresh_needed>>
    /\ UNCHANGED <<buf, seg>>
    /\ UNCHANGED <<drv, net>>
    /\ UNCHANGED aux

\* std::unique_lock<std::mutex> lk(display_mutex_); display_cv_.wait(lk);
\* nothing else takes display_mutex_, so the lock orders nothing.
DisplayWait ==
    /\ dpc = "tested"
    /\ dpc' = "wait"
    /\ UNCHANGED <<hdr, snk, src, sample_, display_complete_, running_,
                   refresh_needed>>
    /\ UNCHANGED <<buf, seg>>
    /\ UNCHANGED <<drv, net>>
    /\ UNCHANGED aux

\* ~Viewer: running_ = false;  (called by the thread that calls process(),
\* between two calls or after the last one)
ViewerStop ==
    /\ pc[ViewerProc] \in {"ready", "eof"}
    /\ running_' = FALSE
    /\ pc' = [pc EXCEPT ![ViewerProc] = "stopping"]
    /\ UNCHANGED <<hdr, snk, slot, src_err, att, seen, sample_,
                   display_complete_, refresh_needed, dpc>>
    /\ UNCHANGED <<buf, seg>>
    /\ UNCHANGED <<drv, net>>
    /\ UNCHANGED aux

\* ~Viewer: display_cv_.notify_one();
ViewerDtorNotify ==
    /\ pc[ViewerProc] = "stopping"
    /\ dpc' = IF dpc = "wait" THEN "woken" ELSE dpc
    /\ pc' = [pc EXCEPT ![ViewerProc] = "joining"]
    /\ UNCHANGED <<hdr, snk, slot, src_err, att, seen, sample_,
                   display_complete_, running_, refresh_needed>>
    /\ UNCHANGED <<buf, seg>>
    /\ UNCHANGED <<drv, net>>
    /\ UNCHANGED aux

\* ~Viewer: display_thread_.join(); then the members are destroyed and the
\* source gives up its slot.
ViewerJoin ==
    /\ pc[ViewerProc] = "joining"
    /\ dpc = "exit"
    /\ detach_source(slot[ViewerProc])
    /\ pc' = [pc EXCEPT ![ViewerProc] = "gone"]
    /\ slot' = [slot EXCEPT ![ViewerProc] = 0]
    /\ UNCHANGED <<snk, src_err, att, seen, vwr>>
    /\ UNCHANGED <<buf, seg>>
    /\ UNCHANGED <<drv, net>>
    /\ UNCHANGED aux

\* display_cv_.wait(lk) has no predicate: it also returns on a spurious
\* wake-up.
DisplaySpurious ==
    /\ dpc = "wait"
    /\ dpc' = "woken"
    /\ UNCHANGED <<hdr, snk, src, sample_, display_complete_, running_,
                   refresh_needed>>
    /\ UNCHANGED <<buf, seg>>
    /\ UNCHANGED <<drv, net>>
    /\ UNCHANGED aux

\* if (!running_) break;
DisplayBegin ==
    /\ dpc = "woken"
    /\ dpc' = IF running_ THEN "running" ELSE "exit"
    /\ UNCHANGED <<hdr, snk, src, sample_, display_complete_, running_,
                   refresh_needed>>
    /\ UNCHANGED <<buf, seg>>
    /\ UNCHANGED <<drv, net>>
    /\ UNCHANGED aux

\* display_complete_ = false; display(*sample_) begins
DisplayCall ==
    /\ dpc = "running"
    /\ dpc' = "display"
    /\ display_complete_' = FALSE
    /\ UNCHANGED <<hdr, snk, src, sample_, running_, refresh_needed>>
    /\ UNCHANGED <<buf, seg>>
    /\ UNCHANGED <<drv, net>>
    /\ UNCHANGED aux

\* display(*sample_) returns; display_complete_ = true;
DisplayEnd ==
    /\ dpc = "display"
    /\ display_complete_' = TRUE
    /\ dpc' = "loop"
    /\ UNCHANGED <<hdr, snk, src, sample_, running_, refresh_needed>>
    /\ UNCHANGED <<buf, seg>>
    /\ UNCHANGED <<drv, net>>
    /\ UNCHANGED aux

\* The display thread dereferences sample_, a view of the shared payload.
DisplayReadsPayload == dpc = "display" /\ sample_ = "shared"

\* A process is inside its source critical section (wait returned, post not
\* yet called).
InSourceCS(p) == pc[p] \in {"cs", "checked", "retrieved", "pushed"}

----
\* FrameBuffer: the push thread is the thread that calls connectToNode and
\* then push in a loop; the pop thread runs FrameBuffer::pop.
\* pc[BufProc] also takes the values "pushed" (after buffer_.push, before
\* post), "posted" (after post, before notify_one) and "stopping" (shutdown
\* flag set, waiting for the pop thread).

\* Variant: connect returns before the node is bound.
BufConnect_NoBlock ==
    /\ pc[BufProc] = "touched"
    /\ buf_params' = <<payload_params>>
    /\ down_state' = "BOUND"
    /\ ppc' = "loop"
    /\ pc' = [pc EXCEPT ![BufProc] = "ready"]
    /\ UNCHANGED <<hdr, snk, slot, src_err, att, seen, vwr, buffer_,
                   sink_running_, out, cerr_overruns, down_ready, seg>>
    /\ UNCHANGED <<drv, net>>
    /\ UNCHANGED aux

\* source_.connect(); param = source_.parameters(); sink_.bind(..);
\* sink_thread_ = std::thread(&FrameBuffer::pop, this);
\* The value connect() returns is not looked at.
BufConnect ==
    /\ pc[BufProc] = "touched"
    /\ connect_ready
    /\ buf_params' = <<payload_params>>
    /\ down_state' = "BOUND"
    /\ ppc' = "loop"
    /\ pc' = [pc EXCEPT ![BufProc] = "ready"]
    /\ UNCHANGED <<hdr, snk, slot, src_err, att, seen, vwr, buffer_,
                   sink_running_, out, cerr_overruns, down_ready, seg>>
    /\ UNCHANGED <<drv, net>>
    /\ UNCHANGED aux

\* if (source_.wait() == oat::NodeState::END) return true;
BufWait ==
    /\ pc[BufProc] = "ready"
    /\ \/ /\ wait_returns_end
          /\ pc' = [pc EXCEPT ![BufProc] = "eof"]
          /\ UNCHANGED <<hdr, seen>>
       \/ /\ ~wait_returns_end
          /\ consume_begin(slot[BufProc])
          /\ pc' = [pc EXCEPT ![BufProc] = "cs"]
          /\ seen' = [seen EXCEPT ![BufProc] = Append(@, sample_number)]
    /\ UNCHANGED <<snk, slot, src_err, att, vwr, buf, seg>>
    /\ UNCHANGED <<drv, net>>
    /\ UNCHANGED aux

\* Variant: a full ring is not reported.
BufPush_Silent ==
    /\ pc[BufProc] = "cs"
    /\ buffer_' = IF Len(buffer_) < BUFFSIZE
                  THEN Append(buffer_, Last(seen[BufProc]))
                  ELSE buffer_
    /\ pc' = [pc EXCEPT ![BufProc] = "pushed"]
    /\ UNCHANGED <<hdr, snk, slot, src_err, att, seen, vwr, sink_running_,
                   ppc, buf_params, out, cerr_overruns, down_state,
                   down_ready, seg>>
    /\ UNCHANGED <<drv, net>>
    /\ UNCHANGED aux

\* Variant: the push thread waits for room in the ring.
BufPush_Blocking ==
    /\ pc[BufProc] = "cs"
    /\ Len(buffer_) < BUFFSIZE
    /\ buffer_' = Append(buffer_, Last(seen[BufProc]))
    /\ pc' = [pc EXCEPT ![BufProc] = "pushed"]
    /\ UNCHANGED <<hdr, snk, slot, src_err, att, seen, vwr, sink_running_,
                   ppc, buf_params, out, cerr_overruns, down_state,
                   down_ready, seg>>
    /\ UNCHANGED <<drv, net>>
    /\ UNCHANGED aux

\* if (!buffer_.push(source_.clone())) std::cerr << "Buffer overrun.\n";
\* The ring's push does not block; on a full ring it returns false and
\* leaves the ring as it is.
BufPush ==
    /\ pc[BufProc] = "cs"
    /\ IF Len(buffer_) < BUFFSIZE
       THEN /\ buffer_' = Append(buffer_, Last(seen[BufProc]))
            /\ UNCHANGED cerr_overruns
       ELSE /\ cerr_overruns' = cerr_overruns + 1
            /\ UNCHANGED buffer_
    /\ pc' = [pc EXCEPT ![BufProc] = "pushed"]
    /\ UNCHANGED <<hdr, snk, slot, src_err, att, seen, vwr, sink_running_,
                   ppc, buf_params, out, down_state, down_ready, seg>>
    /\ UNCHANGED <<drv, net>>
    /\ UNCHANGED aux

\* source_.post();
BufPost ==
    /\ pc[BufProc] = "pushed"
    /\ consume_end(slot[BufProc])
    /\ pc' = [pc EXCEPT ![BufProc] = "posted"]
    /\ UNCHANGED <<snk, slot, src_err, att, seen, vwr, buf, seg>>
    /\ UNCHANGED <<drv, net>>
    /\ UNCHANGED aux

\* cv_.notify_one(); return false;
\* notify_one wakes the pop thread only if it is inside wait_for.
BufNotify ==
    /\ pc[BufProc] = "posted"
    /\ ppc' = IF ppc = "waitfor" THEN "notified" ELSE ppc
    /\ pc' = [pc EXCEPT ![BufProc] = "ready"]
    /\ UNCHANGED <<hdr, snk, slot, src_err, att, seen, vwr, buffer_,
                   sink_running_, buf_params, out, cerr_overruns, down_state,
                   down_ready, seg>>
    /\ UNCHANGED <<drv, net>>
    /\ UNCHANGED aux

\* After push returned true the shutdown flag is set.
BufShutdown ==
    /\ pc[BufProc] = "eof"
    /\ sink_running_' = FALSE
    /\ pc' = [pc EXCEPT ![BufProc] = "stopping"]
    /\ UNCHANGED <<hdr, snk, slot, src_err, att, seen, vwr, buffer_, ppc,
                   buf_params, out, cerr_overruns, down_state, down_ready,
                   seg>>
    /\ UNCHANGED <<drv, net>>
    /\ UNCHANGED aux

\* The pop thread is joined; the Buffer's sink and source are destroyed: END
\* on the downstream node, the upstream slot is given up.
BufJoin ==
    /\ pc[BufProc] = "stopping"
    /\ ppc = "exit"
    /\ down_state' = "END"
    /\ detach_source(slot[BufProc])
    /\ pc' = [pc EXCEPT ![BufProc] = "gone"]
    /\ slot' = [slot EXCEPT ![BufProc] = 0]
    /\ UNCHANGED <<snk, src_err, att, seen, vwr, buffer_, sink_running_, ppc,
                   buf_params, out, cerr_overruns, down_ready, seg>>
    /\ UNCHANGED <<drv, net>>
    /\ UNCHANGED aux

\* while (sink_running_) { std::unique_lock<std::mutex> lk(cv_m_);
\*     cv_.wait_for(lk, msec(10)) ...
PopLoop ==
    /\ ppc = "loop"
    /\ ppc' = IF sink_running_ THEN "waitfor" ELSE "exit"
    /\ UNCHANGED <<hdr, snk, src, vwr, buffer_, sink_running_, buf_params,
                   out, cerr_overruns, down_state, down_ready, seg>>
    /\ UNCHANGED <<drv, net>>
    /\ UNCHANGED aux

\* if (cv_.wait_for(lk, msec(10)) == std::cv_status::timeout) continue;
PopTimeout ==
    /\ ppc = "waitfor"
    /\ ppc' = "loop"
    /\ UNCHANGED <<hdr, snk, src, vwr, buffer_, sink_running_, buf_params,
                   out, cerr_overruns, down_state, down_ready, seg>>
    /\ UNCHANGED <<drv, net>>
    /\ UNCHANGED aux

\* wait_for returns no_timeout without a notification (spurious wake-up).
PopSpurious ==
    /\ ppc = "waitfor"
    /\ ppc' = "check"
    /\ UNCHANGED <<hdr, snk, src, vwr, buffer_, sink_running_, buf_params,
                   out, cerr_overruns, down_state, down_ready, seg>>
    /\ UNCHANGED <<drv, net>>
    /\ UNCHANGED aux

\* wait_for returns no_timeout after notify_one.
PopWake ==
    /\ ppc = "notified"
    /\ ppc' = "check"
    /\ UNCHANGED <<hdr, snk, src, vwr, buffer_, sink_running_, buf_params,
                   out, cerr_overruns, down_state, down_ready, seg>>
    /\ UNCHANGED <<drv, net>>
    /\ UNCHANGED aux

\* while (buffer_.read_available() > 0) { ... }  (the lock is released at
\* the end of the outer iteration)
PopCheck ==
    /\ ppc = "check"
    /\ ppc' = IF Len(buffer_) > 0 THEN "sinkwait" ELSE "loop"
    /\ UNCHANGED <<hdr, snk, src, vwr, buffer_, sink_running_, buf_params,
                   out, cerr_overruns, down_state, down_ready, seg>>
    /\ UNCHANGED <<drv, net>>
    /\ UNCHANGED aux

\* sink_.wait(): returns when the downstream sources have released the
\* previous sample.
PopSinkWait ==
    /\ ppc = "sinkwait"
    /\ down_ready
    /\ ppc' = "cs"
    /\ UNCHANGED <<hdr, snk, src, vwr, buffer_, sink_running_, buf_params,
                   out, cerr_overruns, down_state, down_ready, seg>>
    /\ UNCHANGED <<drv, net>>
    /\ UNCHANGED aux

\* buffer_.consume_one(copy to shared_frame_); sink_.post();
\* After the post the downstream node waits for its sources, if it has any.
PopPublish ==
    /\ ppc = "cs"
    /\ out' = Append(out, Head(buffer_))
    /\ buffer_' = Tail(buffer_)
    /\ \E busy \in BOOLEAN : down_ready' = ~busy
    /\ ppc' = "check"
    /\ UNCHANGED <<hdr, snk, src, vwr, sink_running_, buf_params,
                   cerr_overruns, down_state, seg>>
    /\ UNCHANGED <<drv, net>>
    /\ UNCHANGED aux

\* The sources of the downstream node release the sample.
DownConsume ==
    /\ ~down_ready
    /\ down_ready' = TRUE
    /\ UNCHANGED <<hdr, snk, src, vwr, buffer_, sink_running_, ppc,
                   buf_params, out, cerr_overruns, down_state, seg>>
    /\ UNCHANGED <<drv, net>>
    /\ UNCHANGED aux

----
\* FrameBuffer: state after construction (the pop thread is started by
\* connectToNode).
BufferInit ==
    /\ buffer_ = <<>>
    /\ sink_running_ = TRUE
    /\ ppc = "idle"
    /\ buf_params = <<>>
    /\ out = <<>>
    /\ cerr_overruns = 0
    /\ down_state = "UNDEFINED"
    /\ down_ready = TRUE

----
\* Driver loop of a component's main: sigHandler, run and the return of main.
\* pc[DrvProc] is the position of the component's source; process() is one
\* wait()/post() on it and returns true when the wait returned END.

DriverInit ==
    /\ quit = FALSE
    /\ source_eof = FALSE
    /\ rpc = "test"
    /\ exit_code = <<>>
    /\ calls = 0

\* void sigHandler(int s) { quit = 1; }
DrvSigInt ==
    /\ ~quit
    /\ rpc # "exited"
    /\ quit' = TRUE
    /\ UNCHANGED <<source_eof, rpc, exit_code, calls>>
    /\ UNCHANGED <<hdr, snk, src, vwr, buf, seg, net>>
    /\ UNCHANGED aux

\* Variant: a loop test that only looks at quit.
DrvTest_IgnoresEof ==
    /\ rpc = "test"
    /\ pc[DrvProc] \in {"ready", "eof"}
    /\ IF ~quit
       THEN /\ rpc' = "process"
            /\ calls' = calls + 1
            /\ UNCHANGED exit_code
       ELSE /\ rpc' = "exited"
            /\ exit_code' = <<0>>
            /\ UNCHANGED calls
    /\ UNCHANGED <<quit, source_eof>>
    /\ UNCHANGED <<hdr, snk, src, vwr, buf, seg, net>>
    /\ UNCHANGED aux

\* while (!quit && !source_eof) source_eof = process();
\* after the loop: run returns, "Exiting.", return 0;
DrvTest ==
    /\ rpc = "test"
    /\ pc[DrvProc] \in {"ready", "eof"}
    /\ IF ~quit /\ ~source_eof
       THEN /\ rpc' = "process"
            /\ calls' = calls + 1
            /\ UNCHANGED exit_code
       ELSE /\ rpc' = "exited"
            /\ exit_code' = <<0>>
            /\ UNCHANGED calls
    /\ UNCHANGED <<quit, source_eof>>
    /\ UNCHANGED <<hdr, snk, src, vwr, buf, seg, net>>
    /\ UNCHANGED aux

\* process(): if (source.wait() == END) return true;
DrvWait ==
    /\ rpc = "process"
    /\ pc[DrvProc] \in {"ready", "eof"}
    /\ \/ /\ wait_returns_end
          /\ pc' = [pc EXCEPT ![DrvProc] = "eof"]
          /\ source_eof' = TRUE
          /\ rpc' = "test"
          /\ UNCHANGED <<hdr, seen>>
       \/ /\ ~wait_returns_end
          /\ consume_begin(slot[DrvProc])
          /\ pc' = [pc EXCEPT ![DrvProc] = "cs"]
          /\ seen' = [seen EXCEPT ![DrvProc] = Append(@, sample_number)]
          /\ UNCHANGED <<source_eof, rpc>>
    /\ UNCHANGED <<quit, exit_code, calls>>
    /\ UNCHANGED <<snk, slot, src_err, att, vwr, buf, seg, net>>
    /\ UNCHANGED aux

\* process(): source.post(); return false;
DrvPost ==
    /\ rpc = "process"
    /\ pc[DrvProc] = "cs"
    /\ consume_end(slot[DrvProc])
    /\ pc' = [pc EXCEPT ![DrvProc] = "ready"]
    /\ source_eof' = FALSE
    /\ rpc' = "test"
    /\ UNCHANGED <<quit, exit_code, calls>>
    /\ UNCHANGED <<snk, slot, src_err, att, seen, vwr, buf, seg, net>>
    /\ UNCHANGED aux

----
\* A graph of nodes around a Decorator: node "F" carries frames, a detector
\* reads "F" and publishes one pose on "P" per frame, node "Q" carries poses
\* of an independent producer, and the Decorator reads "F", then its pose
\* sources in list order, and publishes on "D".
\* The node operations are the ones above, for several nodes; a barrier's
\* tokens are kept per reader: n_rd holds the readers owed a read token,
\* n_busy the readers whose write token the sink took at its last post.

GraphNodes == {"F", "P", "Q", "D"}

\* Nodes with a stand-alone producer.
ProducerNodes == {"F", "Q"}

\* The --pose-sources lists tried.
PoseLists == {<<"P">>, <<"P", "Q">>}

nodes == <<n_state, n_num, n_att, n_rd, n_busy>>
decv == <<decpc, pose_sources_, pose_i, frame, poses, ret, saw_end,
          sink_pairs, n_ret0, dec_frames, dec_poses, published>>

GraphInit ==
    /\ n_state = [n \in GraphNodes |-> "UNDEFINED"]
    /\ n_num = [n \in GraphNodes |-> 0]
    /\ n_att = [n \in GraphNodes |-> {}]
    /\ n_rd = [n \in GraphNodes |-> {}]
    /\ n_busy = [n \in GraphNodes |-> {}]
    /\ prodpc = [n \in ProducerNodes |-> "start"]
    /\ detpc = "start"
    /\ decpc = "new"
    /\ pose_sources_ = <<>>
    /\ pose_i = 0
    /\ frame = 0
    /\ poses = <<>>
    /\ ret = <<>>
    /\ saw_end = FALSE
    /\ sink_pairs = 0
    /\ n_ret0 = 0
    /\ dec_frames = <<>>
    /\ dec_poses = [i \in 1..2 |-> <<>>]
    /\ published = <<>>

\* bind_as_sink on node n.
g_bind(n) ==
    /\ n_state[n] = "UNDEFINED"
    /\ n_state' = [n_state EXCEPT ![n] = "BOUND"]
    /\ UNCHANGED <<n_num, n_att, n_rd, n_busy>>

\* attach_as_source of reader r on every node of S.
g_attach(S, r) ==
    /\ n_att' = [n \in GraphNodes |->
                    IF n \in S THEN n_att[n] \cup {r} ELSE n_att[n]]
    /\ UNCHANGED <<n_state, n_num, n_rd, n_busy>>

\* connect on node n returns once the node is BOUND or END.
g_connect_ready(n) == n_state[n] \in {"BOUND", "END"}

\* publish_begin on node n: every attached reader has released.
g_publish_ready(n) == n_busy[n] = {}

\* publish_end on node n.
g_publish(n) ==
    /\ n_num' = [n_num EXCEPT ![n] = @ + 1]
    /\ n_rd' = [n_rd EXCEPT ![n] = n_att[n]]
    /\ n_busy' = [n_busy EXCEPT ![n] = n_att[n]]
    /\ UNCHANGED <<n_state, n_att>>

\* wait on node n returns END once the sink has departed.
g_wait_end(n) == n_state[n] = "END"

\* consume_begin of reader r on node n.
g_consume_begin(n, r) ==
    /\ r \in n_rd[n]
    /\ n_rd' = [n_rd EXCEPT ![n] = @ \ {r}]
    /\ UNCHANGED <<n_state, n_num, n_att, n_busy>>

\* consume_end of reader r on node n.
g_consume_end(n, r) ==
    /\ n_busy' = [n_busy EXCEPT ![n] = @ \ {r}]
    /\ UNCHANGED <<n_state, n_num, n_att, n_rd>>

\* The endpoints of a component are destroyed: reader r gives up its slots,
\* the nodes of S that the component bound go to END.
g_leave(S, r) ==
    /\ n_att' = [n \in GraphNodes |-> n_att[n] \ {r}]
    /\ n_rd' = [n \in GraphNodes |-> n_rd[n] \ {r}]
    /\ n_busy' = [n \in GraphNodes |-> n_busy[n] \ {r}]
    /\ n_state' = [n \in GraphNodes |->
                      IF n \in S /\ n_state[n] = "BOUND" THEN "END"
                      ELSE n_state[n]]
    /\ UNCHANGED n_num

\* A producer binds its node; the producer of "Q" exists when "Q" is one of
\* the Decorator's pose sources.
ProdBind(n) ==
    /\ prodpc[n] = "start"
    /\ n = "Q" => decpc # "new" /\ "Q" \in Range(pose_sources_)
    /\ g_bind(n)
    /\ prodpc' = [prodpc EXCEPT ![n] = "bound"]
    /\ UNCHANGED <<detpc, decv>>
    /\ UNCHANGED <<hdr, snk, src, vwr, buf, seg, drv>>
    /\ UNCHANGED aux

\* sink wait() of a producer.
ProdWait(n) ==
    /\ prodpc[n] = "bound"
    /\ n_num[n] < MaxFrames
    /\ g_publish_ready(n)
    /\ prodpc' = [prodpc EXCEPT ![n] = "cs"]
    /\ UNCHANGED <<nodes, detpc, decv>>
    /\ UNCHANGED <<hdr, snk, src, vwr, buf, seg, drv>>
    /\ UNCHANGED aux

\* sink post() of a producer.
ProdPost(n) ==
    /\ prodpc[n] = "cs"
    /\ g_publish(n)
    /\ prodpc' = [prodpc EXCEPT ![n] = "bound"]
    /\ UNCHANGED <<detpc, decv>>
    /\ UNCHANGED <<hdr, snk, src, vwr, buf, seg, drv>>
    /\ UNCHANGED aux

\* A producer has published its last sample and departs.
ProdDepart(n) ==
    /\ prodpc[n] = "bound"
    /\ n_num[n] = MaxFrames
    /\ n_state' = [n_state EXCEPT ![n] = "END"]
    /\ prodpc' = [prodpc EXCEPT ![n] = "gone"]
    /\ UNCHANGED <<n_num, n_att, n_rd, n_busy, detpc, decv>>
    /\ UNCHANGED <<hdr, snk, src, vwr, buf, seg, drv>>
    /\ UNCHANGED aux

\* Detector: touch on the frame node.
DetTouch ==
    /\ detpc = "start"
    /\ g_attach({"F"}, "det")
    /\ detpc' = "touched"
    /\ UNCHANGED <<prodpc, decv>>
    /\ UNCHANGED <<hdr, snk, src, vwr, buf, seg, drv>>
    /\ UNCHANGED aux

\* Detector: connect on the frame node; on CONNECTED it binds its pose node.
DetConnect ==
    /\ detpc = "touched"
    /\ g_connect_ready("F")
    /\ IF n_state["F"] = "END"
       THEN /\ detpc' = "eof"
            /\ UNCHANGED nodes
       ELSE /\ g_bind("P")
            /\ detpc' = "ready"
    /\ UNCHANGED <<prodpc, decv>>
    /\ UNCHANGED <<hdr, snk, src, vwr, buf, seg, drv>>
    /\ UNCHANGED aux

\* Detector process(): wait on the frame node.
DetFrameWait ==
    /\ detpc = "ready"
    /\ \/ /\ g_wait_end("F")
          /\ detpc' = "eof"
          /\ UNCHANGED nodes
       \/ /\ ~g_wait_end("F")
          /\ g_consume_begin("F", "det")
          /\ detpc' = "fcs"
    /\ UNCHANGED <<prodpc, decv>>
    /\ UNCHANGED <<hdr, snk, src, vwr, buf, seg, drv>>
    /\ UNCHANGED aux

\* Detector process(): copy the frame, post on the frame node, detect.
DetFramePost ==
    /\ detpc = "fcs"
    /\ g_consume_end("F", "det")
    /\ detpc' = "detected"
    /\ UNCHANGED <<prodpc, decv>>
    /\ UNCHANGED <<hdr, snk, src, vwr, buf, seg, drv>>
    /\ UNCHANGED aux

\* Detector process(): wait on the pose sink.
DetSinkWait ==
    /\ detpc = "detected"
    /\ g_publish_ready("P")
    /\ detpc' = "pcs"
    /\ UNCHANGED <<nodes, prodpc, decv>>
    /\ UNCHANGED <<hdr, snk, src, vwr, buf, seg, drv>>
    /\ UNCHANGED aux

\* Detector process(): write the pose, post on the pose sink.
DetSinkPost ==
    /\ detpc = "pcs"
    /\ g_publish("P")
    /\ detpc' = "ready"
    /\ UNCHANGED <<prodpc, decv>>
    /\ UNCHANGED <<hdr, snk, src, vwr, buf, seg, drv>>
    /\ UNCHANGED aux

\* Detector: its loop has ended; its endpoints are destroyed.
DetExit ==
    /\ detpc = "eof"
    /\ g_leave({"P"}, "det")
    /\ detpc' = "gone"
    /\ UNCHANGED <<prodpc, decv>>
    /\ UNCHANGED <<hdr, snk, src, vwr, buf, seg, drv>>
    /\ UNCHANGED aux

\* Decorator::applyConfiguration: one Source per --pose-sources address.
DecConfigure ==
    /\ decpc = "new"
    /\ \E l \in PoseLists : pose_sources_' = l
    /\ decpc' = "start"
    /\ UNCHANGED <<pose_i, frame, poses, ret, saw_end, sink_pairs, n_ret0,
                   dec_frames, dec_poses, published>>
    /\ UNCHANGED <<nodes, prodpc, detpc>>
    /\ UNCHANGED <<hdr, snk, src, vwr, buf, seg, drv>>
    /\ UNCHANGED aux

\* frame_source_.touch(..); for (auto &ps : pose_sources_) ps.source->touch(..);
DecTouch ==
    /\ decpc = "start"
    /\ g_attach({"F"} \cup Range(pose_sources_), "dec")
    /\ decpc' = "touched"
    /\ UNCHANGED <<pose_sources_, pose_i, frame, poses, ret, saw_end,
                   sink_pairs, n_ret0, dec_frames, dec_poses, published>>
    /\ UNCHANGED <<prodpc, detpc>>
    /\ UNCHANGED <<hdr, snk, src, vwr, buf, seg, drv>>
    /\ UNCHANGED aux

\* if (frame_source_.connect() != SourceState::CONNECTED) return false;
DecConnectFrame ==
    /\ decpc = "touched"
    /\ g_connect_ready("F")
    /\ decpc' = IF n_state["F"] = "END" THEN "refused" ELSE "fconnected"
    /\ UNCHANGED <<pose_sources_, pose_i, frame, poses, ret, saw_end,
                   sink_pairs, n_ret0, dec_frames, dec_poses, published>>
    /\ UNCHANGED <<nodes, prodpc, detpc>>
    /\ UNCHANGED <<hdr, snk, src, vwr, buf, seg, drv>>
    /\ UNCHANGED aux

\* for (auto &ps : pose_sources_) ps.source->connect();  (the value it
\* returns is not looked at)  frame_sink_.bind(..); return true;
DecConnectPoses ==
    /\ decpc = "fconnected"
    /\ \A i \in 1..Len(pose_sources_) : g_connect_ready(pose_sources_[i])
    /\ g_bind("D")
    /\ decpc' = "ready"
    /\ UNCHANGED <<pose_sources_, pose_i, frame, poses, ret, saw_end,
                   sink_pairs, n_ret0, dec_frames, dec_poses, published>>
    /\ UNCHANGED <<prodpc, detpc>>
    /\ UNCHANGED <<hdr, snk, src, vwr, buf, seg, drv>>
    /\ UNCHANGED aux

\* process() is entered;
\* if (frame_source_.wait() == oat::NodeState::END) return 1;
DecFrameWait ==
    /\ decpc = "ready"
    /\ sink_pairs' = 0
    /\ \/ /\ g_wait_end("F")
          /\ saw_end' = TRUE
          /\ ret' = <<1>>
          /\ decpc' = "returned"
          /\ UNCHANGED <<nodes, dec_frames>>
       \/ /\ ~g_wait_end("F")
          /\ g_consume_begin("F", "dec")
          /\ saw_end' = FALSE
          /\ ret' = <<>>
          /\ decpc' = "fcs"
          /\ dec_frames' = Append(dec_frames, n_num["F"])
    /\ UNCHANGED <<pose_sources_, pose_i, frame, poses, n_ret0, dec_poses,
                   published>>
    /\ UNCHANGED <<prodpc, detpc>>
    /\ UNCHANGED <<hdr, snk, src, vwr, buf, seg, drv>>
    /\ UNCHANGED aux

\* Variant: the frame is copied but the frame source is not posted.
DecFramePost_NoPost ==
    /\ decpc = "fcs"
    /\ frame' = n_num["F"]
    /\ poses' = <<>>
    /\ pose_i' = 1
    /\ decpc' = "poses"
    /\ UNCHANGED <<pose_sources_, ret, saw_end, sink_pairs, n_ret0,
                   dec_frames, dec_poses, published>>
    /\ UNCHANGED <<nodes, prodpc, detpc>>
    /\ UNCHANGED <<hdr, snk, src, vwr, buf, seg, drv>>
    /\ UNCHANGED aux

\* frame_source_.copyTo(frame); frame_source_.post();
\* std::vector<oat::Pose> poses; i = 0
DecFramePost ==
    /\ decpc = "fcs"
    /\ frame' = n_num["F"]
    /\ g_consume_end("F", "dec")
    /\ poses' = <<>>
    /\ pose_i' = 1
    /\ decpc' = "poses"
    /\ UNCHANGED <<pose_sources_, ret, saw_end, sink_pairs, n_ret0,
                   dec_frames, dec_poses, published>>
    /\ UNCHANGED <<prodpc, detpc>>
    /\ UNCHANGED <<hdr, snk, src, vwr, buf, seg, drv>>
    /\ UNCHANGED aux

\* Variant: a pose source at END is skipped and the call goes on.
DecPoseWait_SkipsEnd ==
    /\ decpc = "poses"
    /\ pose_i <= Len(pose_sources_)
    /\ \/ /\ g_wait_end(pose_sources_[pose_i])
          /\ saw_end' = TRUE
          /\ pose_i' = pose_i + 1
          /\ UNCHANGED <<nodes, dec_poses, decpc>>
       \/ /\ ~g_wait_end(pose_sources_[pose_i])
          /\ g_consume_begin(pose_sources_[pose_i], "dec")
          /\ decpc' = "pcs"
          /\ dec_poses' = [dec_poses EXCEPT
                             ![pose_i] = Append(@, n_num[pose_sources_[pose_i]])]
          /\ UNCHANGED <<saw_end, pose_i>>
    /\ UNCHANGED <<pose_sources_, frame, poses, ret, sink_pairs, n_ret0,
                   dec_frames, published>>
    /\ UNCHANGED <<prodpc, detpc>>
    /\ UNCHANGED <<hdr, snk, src, vwr, buf, seg, drv>>
    /\ UNCHANGED aux

\* Variant: when no new pose is there the last one is taken again.
DecPoseWait_NoBlock ==
    /\ decpc = "poses"
    /\ pose_i <= Len(pose_sources_)
    /\ \/ /\ g_wait_end(pose_sources_[pose_i])
          /\ saw_end' = TRUE
          /\ ret' = <<1>>
          /\ decpc' = "returned"
          /\ UNCHANGED <<nodes, dec_poses, poses, pose_i>>
       \/ /\ ~g_wait_end(pose_sources_[pose_i])
          /\ g_consume_begin(pose_sources_[pose_i], "dec")
          /\ decpc' = "pcs"
          /\ dec_poses' = [dec_poses EXCEPT
                             ![pose_i] = Append(@, n_num[pose_sources_[pose_i]])]
          /\ UNCHANGED <<saw_end, ret, poses, pose_i>>
       \/ /\ ~g_wait_end(pose_sources_[pose_i])
          /\ "dec" \notin n_rd[pose_sources_[pose_i]]
          /\ poses' = Append(poses, n_num[pose_sources_[pose_i]])
          /\ pose_i' = pose_i + 1
          /\ UNCHANGED <<nodes, dec_poses, saw_end, ret, decpc>>
    /\ UNCHANGED <<pose_sources_, frame, sink_pairs, n_ret0, dec_frames,
                   published>>
    /\ UNCHANGED <<prodpc, detpc>>
    /\ UNCHANGED <<hdr, snk, src, vwr, buf, seg, drv>>
    /\ UNCHANGED aux

\* for (i = 0; i != pose_sources_.size(); i++) {
\*     if (pose_sources_[i].source->wait() == oat::NodeState::END) return 1;
DecPoseWait ==
    /\ decpc = "poses"
    /\ pose_i <= Len(pose_sources_)
    /\ \/ /\ g_wait_end(pose_sources_[pose_i])
          /\ saw_end' = TRUE
          /\ ret' = <<1>>
          /\ decpc' = "returned"
          /\ UNCHANGED <<nodes, dec_poses>>
       \/ /\ ~g_wait_end(pose_sources_[pose_i])
          /\ g_consume_begin(pose_sources_[pose_i], "dec")
          /\ decpc' = "pcs"
          /\ dec_poses' = [dec_poses EXCEPT
                             ![pose_i] = Append(@, n_num[pose_sources_[pose_i]])]
          /\ UNCHANGED <<saw_end, ret>>
    /\ UNCHANGED <<pose_sources_, pose_i, frame, poses, sink_pairs, n_ret0,
                   dec_frames, published>>
    /\ UNCHANGED <<prodpc, detpc>>
    /\ UNCHANGED <<hdr, snk, src, vwr, buf, seg, drv>>
    /\ UNCHANGED aux

\* Variant: the pose is cloned but the pose source is not posted.
DecPosePost_NoPost ==
    /\ decpc = "pcs"
    /\ poses' = Append(poses, n_num[pose_sources_[pose_i]])
    /\ pose_i' = pose_i + 1
    /\ decpc' = "poses"
    /\ UNCHANGED <<pose_sources_, frame, ret, saw_end, sink_pairs, n_ret0,
                   dec_frames, dec_poses, published>>
    /\ UNCHANGED <<nodes, prodpc, detpc>>
    /\ UNCHANGED <<hdr, snk, src, vwr, buf, seg, drv>>
    /\ UNCHANGED aux

\*     poses.push_back(pose_sources_[i].source->clone());
\*     pose_sources_[i].source->post(); }
DecPosePost ==
    /\ decpc = "pcs"
    /\ poses' = Append(poses, n_num[pose_sources_[pose_i]])
    /\ g_consume_end(pose_sources_[pose_i], "dec")
    /\ pose_i' = pose_i + 1
    /\ decpc' = "poses"
    /\ UNCHANGED <<pose_sources_, frame, ret, saw_end, sink_pairs, n_ret0,
                   dec_frames, dec_poses, published>>
    /\ UNCHANGED <<prodpc, detpc>>
    /\ UNCHANGED <<hdr, snk, src, vwr, buf, seg, drv>>
    /\ UNCHANGED aux

\* decorate(frame, poses); frame_sink_.wait();
DecSinkWait ==
    /\ decpc = "poses"
    /\ pose_i > Len(pose_sources_)
    /\ g_publish_ready("D")
    /\ decpc' = "scs"
    /\ UNCHANGED <<pose_sources_, pose_i, frame, poses, ret, saw_end,
                   sink_pairs, n_ret0, dec_frames, dec_poses, published>>
    /\ UNCHANGED <<nodes, prodpc, detpc>>
    /\ UNCHANGED <<hdr, snk, src, vwr, buf, seg, drv>>
    /\ UNCHANGED aux

\* frame.copyTo(shared_frame_); frame_sink_.post(); return 0;
DecSinkPost ==
    /\ decpc = "scs"
    /\ g_publish("D")
    /\ published' = Append(published, <<frame, poses>>)
    /\ sink_pairs' = sink_pairs + 1
    /\ ret' = <<0>>
    /\ n_ret0' = n_ret0 + 1
    /\ decpc' = "ready"
    /\ UNCHANGED <<pose_sources_, pose_i, frame, poses, saw_end, dec_frames,
                   dec_poses>>
    /\ UNCHANGED <<prodpc, detpc>>
    /\ UNCHANGED <<hdr, snk, src, vwr, buf, seg, drv>>
    /\ UNCHANGED aux

\* connectToNode returned false, or process() returned 1 and the driver loop
\* ended: the Decorator's endpoints are destroyed.
DecExit ==
    /\ decpc \in {"refused", "returned"}
    /\ g_leave({"D"}, "dec")
    /\ decpc' = "gone"
    /\ UNCHANGED <<pose_sources_, pose_i, frame, poses, ret, saw_end,
                   sink_pairs, n_ret0, dec_frames, dec_poses, published>>
    /\ UNCHANGED <<prodpc, detpc>>
    /\ UNCHANGED <<hdr, snk, src, vwr, buf, seg, drv>>
    /\ UNCHANGED aux

\* The node critical sections the Decorator is inside: a source's between
\* consume_begin and consume_end, the sink's between wait and post.
DecHeld ==
    {n \in GraphNodes : "dec" \in n_busy[n] /\ "dec" \notin n_rd[n]}
        \cup (IF decpc = "scs" THEN {"D"} ELSE {})

----
\* The experimental client (matclient.cpp): main with its signal handler.
\* pc[MatProc] takes the values "start", "touched" (source bound to the
\* node), "cs" (a wait has returned), "cloned" (loop test passed, frame
\* cloned), "ready" (posted, before the wait that ends the iteration), "left"
\* (loop left) and "gone" (main returned).

\* void sigHandler(int s) { quit = 1; }
MatSigInt ==
    /\ ~quit
    /\ pc[MatProc] \notin {"left", "gone"}
    /\ quit' = TRUE
    /\ UNCHANGED <<source_eof, rpc, exit_code, calls>>
    /\ UNCHANGED <<hdr, snk, src, vwr, buf, seg, net>>
    /\ UNCHANGED aux

\* source.wait();  before the loop and at the end of every iteration; what it
\* returns is not looked at.
MatWait ==
    /\ pc[MatProc] \in {"touched", "ready"}
    /\ \/ /\ wait_returns_end
          /\ UNCHANGED <<hdr, seen>>
       \/ /\ ~wait_returns_end
          /\ consume_begin(slot[MatProc])
          /\ seen' = [seen EXCEPT ![MatProc] = Append(@, sample_number)]
    /\ pc' = [pc EXCEPT ![MatProc] = "cs"]
    /\ UNCHANGED <<snk, slot, src_err, att, vwr, buf, seg, drv, net>>
    /\ UNCHANGED aux

\* while (!quit) { local = source.cloneFrame();
MatTest ==
    /\ pc[MatProc] = "cs"
    /\ pc' = [pc EXCEPT ![MatProc] = IF quit THEN "left" ELSE "cloned"]
    /\ UNCHANGED <<hdr, snk, slot, src_err, att, seen, vwr, buf, seg, drv,
                   net>>
    /\ UNCHANGED aux

\* source.post(); cv::imshow(name, local); cv::waitKey(1);
\* (after END every wait returns at once and every post adds a token: the
\* count is capped here)
MatPost ==
    /\ pc[MatProc] = "cloned"
    /\ write_slot[slot[MatProc]] <= MaxSample
    /\ consume_end(slot[MatProc])
    /\ pc' = [pc EXCEPT ![MatProc] = "ready"]
    /\ UNCHANGED <<snk, slot, src_err, att, seen, vwr, buf, seg, drv, net>>
    /\ UNCHANGED aux

\* return 0; the source is destroyed and gives up its slot.
MatExit ==
    /\ pc[MatProc] = "left"
    /\ detach_source(slot[MatProc])
    /\ pc' = [pc EXCEPT ![MatProc] = "gone"]
    /\ slot' = [slot EXCEPT ![MatProc] = 0]
    /\ exit_code' = <<0>>
    /\ UNCHANGED <<quit, source_eof, rpc, calls>>
    /\ UNCHANGED <<snk, src_err, att, seen, vwr, buf, seg, net>>
    /\ UNCHANGED aux

----
\* recorder main: the --position-sources and --image-sources lists.

\* The source names tried.
SourceNames == {"a", "b"}

\* The lists of at most MaxLen names.
NameLists == UNION {[1..n -> SourceNames] : n \in 0..MaxLen}

RecorderInit ==
    /\ argv_positions = <<>>
    /\ argv_frames = <<>>
    /\ position_sources = <<>>
    /\ frame_sources = <<>>
    /\ warnings = {}
    /\ recpc = "start"

\* std::unique followed by resize to the iterator it returned: of every run
\* of equal adjacent elements the first is kept.
RECURSIVE std_unique(_)
std_unique(s) ==
    IF Len(s) <= 1 THEN s
    ELSE IF s[1] = s[2] THEN std_unique(Tail(s))
         ELSE <<s[1]>> \o std_unique(Tail(s))

\* position_sources = variable_map["position-sources"]; it = std::unique(..);
\* if (it != position_sources.end()) { resize; warning }
RecParsePositions ==
    /\ recpc = "start"
    /\ \E l \in NameLists :
          /\ argv_positions' = l
          /\ position_sources' = std_unique(l)
          /\ warnings' = IF Len(std_unique(l)) # Len(l)
                         THEN warnings \cup {"position sources"}
                         ELSE warnings
    /\ recpc' = "positions"
    /\ UNCHANGED <<argv_frames, frame_sources>>
    /\ UNCHANGED <<p2d, dd, enc>>
    /\ UNCHANGED <<hdr, snk, src, vwr, buf, seg, drv, net>>

\* frame_sources = variable_map["image-sources"]; it = std::unique(..);
\* if (it != frame_sources.end()) { resize; warning }
RecParseFrames ==
    /\ recpc = "positions"
    /\ \E l \in NameLists :
          /\ argv_frames' = l
          /\ frame_sources' = std_unique(l)
          /\ warnings' = IF Len(std_unique(l)) # Len(l)
                         THEN warnings \cup {"frame sources"}
                         ELSE warnings
    /\ recpc' = "parsed"
    /\ UNCHANGED <<argv_positions, position_sources>>
    /\ UNCHANGED <<p2d, dd, enc>>
    /\ UNCHANGED <<hdr, snk, src, vwr, buf, seg, drv, net>>

----
\* Position2D (lib/datatypes/Position2D.h).

\* The homographies tried: x -> scale * x + offset for a position, and
\* x -> scale * x for a velocity, whose offsets are cleared.
Homographies == {[scale |-> 1, offset |-> 0], [scale |-> 2, offset |-> 1]}

\* The points and velocities tried.
Points == {<<0, 0>>, <<1, 2>>}

\* The positions the conversion is applied to.
Position2Ds ==
    [coord_system : {"PIXELS", "WORLD"},
     homography_valid : BOOLEAN,
     homography : Homographies,
     position_valid : BOOLEAN,
     position : Points,
     velocity_valid : {FALSE},
     velocity : Points,
     head_direction_valid : BOOLEAN,
     head_direction : {<<1, 0>>}]

\* Position2D(): the member initialisers.
DefaultPosition2D ==
    [coord_system |-> "PIXELS",
     homography_valid |-> FALSE,
     homography |-> [scale |-> 1, offset |-> 0],
     position_valid |-> FALSE,
     position |-> <<0, 0>>,
     velocity_valid |-> FALSE,
     velocity |-> <<0, 0>>,
     head_direction_valid |-> FALSE,
     head_direction |-> <<1, 0>>]

\* cv::perspectiveTransform of one point.
perspectiveTransform(pt, scale, offset) ==
    <<scale * pt[1] + offset, scale * pt[2] + offset>>

\* Position2D::convertToWorldCoordinates: the value returned for receiver p.
convertToWorldCoordinates(p) ==
    IF p.coord_system = "PIXELS" /\ p.homography_valid
    THEN [p EXCEPT
            !.position = perspectiveTransform(p.position,
                             p.homography.scale, p.homography.offset),
            !.velocity = perspectiveTransform(p.velocity,
                             p.homography.scale, 0),
            !.coord_system = "WORLD"]
    ELSE p

Position2DInit ==
    /\ p_this = DefaultPosition2D
    /\ p_before = DefaultPosition2D
    /\ p_ret = DefaultPosition2D
    /\ p2pc = "start"

\* A position is filled in by a detector.
P2Make ==
    /\ p2pc = "start"
    /\ \E p \in Position2Ds :
          /\ p_this' = p
          /\ p_before' = p
          /\ p_ret' = p
    /\ p2pc' = "made"
    /\ UNCHANGED <<rec, dd, enc>>
    /\ UNCHANGED <<hdr, snk, src, vwr, buf, seg, drv, net>>

\* Variant: the conversion is done in place on the receiver.
P2Convert_InPlace ==
    /\ p2pc = "made"
    /\ p_before' = p_this
    /\ p_ret' = convertToWorldCoordinates(p_this)
    /\ p_this' = convertToWorldCoordinates(p_this)
    /\ p2pc' = "converted"
    /\ UNCHANGED <<rec, dd, enc>>
    /\ UNCHANGED <<hdr, snk, src, vwr, buf, seg, drv, net>>

\* ret = this->convertToWorldCoordinates(); p_before is the receiver as it
\* was at the call.
P2Convert ==
    /\ p2pc = "made"
    /\ p_before' = p_this
    /\ p_ret' = convertToWorldCoordinates(p_this)
    /\ p_this' = p_this
    /\ p2pc' = "converted"
    /\ UNCHANGED <<rec, dd, enc>>
    /\ UNCHANGED <<hdr, snk, src, vwr, buf, seg, drv, net>>

\* ret.convertToWorldCoordinates(): the value returned becomes the receiver
\* of a second conversion.
P2ConvertAgain ==
    /\ p2pc = "converted"
    /\ p_this' = p_ret
    /\ p_before' = p_ret
    /\ p_ret' = convertToWorldCoordinates(p_ret)
    /\ p2pc' = "again"
    /\ UNCHANGED <<rec, dd, enc>>
    /\ UNCHANGED <<hdr, snk, src, vwr, buf, seg, drv, net>>

----
\* DifferenceDetector (positiondetector/DifferenceDetector.cpp).  A frame is
\* one row of two grey pixels.

\* The pixel values tried.
PixelValues == {0, 100, 255}

\* The frames passed to the detector.
DDFrames == [1..2 -> PixelValues]

\* The values of the diff-threshold option tried.
Thresholds == {10, 120}

\* cv::absdiff
absdiff(f, g) ==
    [i \in 1..Len(f) |-> IF f[i] >= g[i] THEN f[i] - g[i] ELSE g[i] - f[i]]

\* cv::threshold(.., thresh, 255, cv::THRESH_BINARY)
threshold(f, thresh) == [i \in 1..Len(f) |-> IF f[i] > thresh THEN 255 ELSE 0]

\* BORDER_REFLECT_101 on a row of two pixels: column j, counted from 0 and
\* possibly outside the row, reads pixel 1 or 2.
borderInterpolate(j) == ((j + 2 * MaxBlur) % 2) + 1

\* The sum of the w pixels under a kernel anchored at its centre on pixel i.
RECURSIVE KernelSum(_, _, _, _)
KernelSum(f, i, w, d) ==
    IF d = w THEN 0
    ELSE f[borderInterpolate((i - 1) - (w \div 2) + d)]
             + KernelSum(f, i, w, d + 1)

\* cv::blur(f, f, ksize): the normalised box filter, rounded to nearest.  On
\* a single row the kernel's height reads the same row again.
blur(f, ksize) ==
    [i \in 1..Len(f) |->
        (2 * KernelSum(f, i, ksize.width, 0) + ksize.width)
            \div (2 * ksize.width)]

\* The constructor: set_blur_size(2); the other members as declared.
DetectorInit ==
    /\ last_image_ = <<>>
    /\ last_image_set_ = FALSE
    /\ threshold_frame_ = <<>>
    /\ blur_on_ = TRUE
    /\ blur_size_ = [width |-> 2, height |-> 2]
    /\ difference_intensity_threshold_ = 10
    /\ dd_in = <<>>

\* Variant: a value of 0 leaves blur_on_ as it was.
set_blur_size_KeepsOn(value, size) ==
    IF value > 0
    THEN [blur_on_ |-> TRUE, blur_size_ |-> [width |-> value, height |-> value]]
    ELSE [blur_on_ |-> blur_on_, blur_size_ |-> size]

\* DifferenceDetector::set_blur_size(value): blur_on_ and blur_size_ after
\* the call, blur_size_ being size before it.
set_blur_size(value, size) ==
    IF value > 0
    THEN [blur_on_ |-> TRUE, blur_size_ |-> [width |-> value, height |-> value]]
    ELSE [blur_on_ |-> FALSE, blur_size_ |-> size]

\* applyConfiguration: the diff-threshold and blur options, each given or
\* not, before the first frame.
DDConfigure ==
    /\ dd_in = <<>>
    /\ \E th \in Thresholds \cup {difference_intensity_threshold_} :
          difference_intensity_threshold_' = th
    /\ \/ UNCHANGED <<blur_on_, blur_size_>>
       \/ \E v \in 0..MaxBlur :
             /\ blur_on_' = set_blur_size(v, blur_size_).blur_on_
             /\ blur_size_' = set_blur_size(v, blur_size_).blur_size_
    /\ UNCHANGED <<last_image_, last_image_set_, threshold_frame_, dd_in>>
    /\ UNCHANGED <<rec, p2d, enc>>
    /\ UNCHANGED <<hdr, snk, src, vwr, buf, seg, drv, net>>

\* The BLUR trackbar is moved to v: blur_size_.height is written through
\* the pointer given to createTrackbar, then the callback calls
\* set_blur_size(v).  The window exists once a frame has been tuned.
DDBlurSlider ==
    /\ dd_in # <<>>
    /\ \E v \in 0..MaxBlur :
          /\ LET written == [blur_size_ EXCEPT !.height = v]
             IN /\ blur_on_' = set_blur_size(v, written).blur_on_
                /\ blur_size_' = set_blur_size(v, written).blur_size_
    /\ UNCHANGED <<last_image_, last_image_set_, threshold_frame_,
                   difference_intensity_threshold_, dd_in>>
    /\ UNCHANGED <<rec, p2d, enc>>
    /\ UNCHANGED <<hdr, snk, src, vwr, buf, seg, drv, net>>

\* Variant: last_image_ is set on the first call only.
DDApplyThreshold_KeepsFirst ==
    /\ Len(dd_in) < MaxCalls
    /\ \E img \in DDFrames :
          /\ IF last_image_set_
             THEN /\ threshold_frame_' =
                        LET t == threshold(absdiff(img, last_image_),
                                           difference_intensity_threshold_)
                        IN IF blur_on_ THEN blur(t, blur_size_) ELSE t
                  /\ UNCHANGED <<last_image_, last_image_set_>>
             ELSE /\ threshold_frame_' = img
                  /\ last_image_' = img
                  /\ last_image_set_' = TRUE
          /\ dd_in' = Append(dd_in, img)
    /\ UNCHANGED <<blur_on_, blur_size_, difference_intensity_threshold_>>
    /\ UNCHANGED <<rec, p2d, enc>>
    /\ UNCHANGED <<hdr, snk, src, vwr, buf, seg, drv, net>>

\* DifferenceDetector::applyThreshold(frame); dd_in records the frames
\* passed.
DDApplyThreshold ==
    /\ Len(dd_in) < MaxCalls
    /\ \E img \in DDFrames :
          /\ IF last_image_set_
             THEN /\ threshold_frame_' =
                        LET t == threshold(absdiff(img, last_image_),
                                           difference_intensity_threshold_)
                        IN IF blur_on_ THEN blur(t, blur_size_) ELSE t
                  /\ last_image_' = img
                  /\ UNCHANGED last_image_set_
             ELSE /\ threshold_frame_' = img
                  /\ last_image_' = img
                  /\ last_image_set_' = TRUE
          /\ dd_in' = Append(dd_in, img)
    /\ UNCHANGED <<blur_on_, blur_size_, difference_intensity_threshold_>>
    /\ UNCHANGED <<rec, p2d, enc>>
    /\ UNCHANGED <<hdr, snk, src, vwr, buf, seg, drv, net>>

----
\* Decorator::encodeSampleNumber (decorator/Decorator.cpp).  The sample count
\* is a word of EncodeBits bits; a frame is one row of cols pixels, each 0,
\* 255 (white) or Untouched.

\* A pixel of the image that was not written.
Untouched == 7

EncoderInit ==
    /\ enc_frame = [cols |-> 0, sample_count |-> 0, pixels |-> <<>>]
    /\ encode_bit_size_ = 0
    /\ encpc = "start"

\* connectToNode: encode_bit_size_
\*     = std::ceil(param.cols / 3 / sizeof(uint64_t) / 8),
\* every division being one of integers.
EncConnect ==
    /\ encpc = "start"
    /\ \E cols \in 1..MaxCols :
          /\ encode_bit_size_' = (cols \div 3) \div EncodeBits
          /\ enc_frame' = [cols |-> cols, sample_count |-> 0,
                           pixels |-> [c \in 1..cols |-> Untouched]]
    /\ encpc' = "connected"
    /\ UNCHANGED <<rec, p2d, dd>>
    /\ UNCHANGED <<hdr, snk, src, vwr, buf, seg, drv, net>>

\* The loop of encodeSampleNumber from bit shift on: the square at columns
\* column .. column + b - 1 (counted from 0) is set white or black by the
\* lowest bit of sample_count, which is then shifted right.
RECURSIVE EncodeLoop(_, _, _, _, _)
EncodeLoop(pixels, sample_count, column, b, shift) ==
    IF shift = EncodeBits THEN pixels
    ELSE EncodeLoop(
             [c \in DOMAIN pixels |->
                 IF (c - 1) \in column..(column + b - 1)
                 THEN IF sample_count % 2 = 1 THEN 255 ELSE 0
                 ELSE pixels[c]],
             sample_count \div 2, column + b, b, shift + 1)

\* encodeSampleNumber(frame) on a frame carrying sample count n.
EncEncode ==
    /\ encpc = "connected"
    /\ \E n \in 0..(2 ^ EncodeBits - 1) :
          LET column == enc_frame.cols - EncodeBits * encode_bit_size_
          IN IF column < 0
             THEN /\ enc_frame' = [enc_frame EXCEPT !.sample_count = n]
                  /\ encpc' = "thrown"
             ELSE /\ enc_frame' =
                        [enc_frame EXCEPT
                            !.sample_count = n,
                            !.pixels = EncodeLoop(enc_frame.pixels, n, column,
                                                  encode_bit_size_, 0)]
                  /\ encpc' = "encoded"
    /\ UNCHANGED encode_bit_size_
    /\ UNCHANGED <<rec, p2d, dd>>
    /\ UNCHANGED <<hdr, snk, src, vwr, buf, seg, drv, net>>

----
Init ==
    /\ NodeInit
    /\ spc = [k \in Sinks |-> "start"]
    /\ sink_err = [k \in Sinks |-> "none"]
    /\ pc = [p \in Procs |-> "start"]
    /\ slot = [p \in Procs |-> 0]
    /\ src_err = [p \in Procs |-> "none"]
    /\ att = [p \in Procs |-> 0]
    /\ seen = [p \in Procs |-> <<>>]
    /\ ViewerInit
    /\ BufferInit
    /\ removals = 0
    /\ stale_access = FALSE
    /\ DriverInit
    /\ GraphInit
    /\ RecorderInit
    /\ Position2DInit
    /\ DetectorInit
    /\ EncoderInit

Next ==
    \/ \E k \in Sinks : SinkBind(k)
    \/ \E k \in Sinks : SinkWait(k)
    \/ \E k \in Sinks : SinkPost(k)
    \/ \E k \in Sinks : SinkDepart(k)
    \/ \E p \in Procs : SourceTouch(p)
    \/ \E p \in Procs : SourceConnect(p)
    \/ \E p \in Procs : SourceWait(p)
    \/ \E p \in Procs : SourcePost(p)
    \/ \E p \in Procs : SourceQuit(p)
    \/ \E p \in Procs : SourceExit(p)

Spec == Init /\ [][Next]_vars

\* No source quits on its own; every source that can take a step of its loop
\* eventually takes it.
LiveNext ==
    \/ \E k \in Sinks : SinkBind(k)
    \/ \E k \in Sinks : SinkWait(k)
    \/ \E k \in Sinks : SinkPost(k)
    \/ \E k \in Sinks : SinkDepart(k)
    \/ \E p \in Procs : SourceTouch(p)
    \/ \E p \in Procs : SourceConnect(p)
    \/ \E p \in Procs : SourceWait(p)
    \/ \E p \in Procs : SourcePost(p)
    \/ \E p \in Procs : SourceExit(p)

LiveSpec ==
    /\ Init
    /\ [][LiveNext]_vars
    /\ \A p \in Procs : WF_vars(SourceConnect(p))
    /\ \A p \in Procs : WF_vars(SourceWait(p))
    /\ \A p \in Procs : WF_vars(SourcePost(p))

\* As LiveSpec, and the sink's wait and post are taken when they can be: the
\* sink and the sources each repeat wait/post.
HandshakeSpec ==
    /\ Init
    /\ [][LiveNext]_vars
    /\ \A p \in Procs : WF_vars(SourceConnect(p))
    /\ \A p \in Procs : WF_vars(SourceWait(p))
    /\ \A p \in Procs : WF_vars(SourcePost(p))
    /\ \A k \in Sinks : WF_vars(SinkWait(k))
    /\ \A k \in Sinks : WF_vars(SinkPost(k))

\* One sink; sources may die inside their critical section.  No reclaim.
CrashNext ==
    \/ SinkBind(1)
    \/ SinkWait(1)
    \/ SinkPost(1)
    \/ SinkDepart(1)
    \/ \E p \in Procs : SourceTouch(p)
    \/ \E p \in Procs : SourceConnect(p)
    \/ \E p \in Procs : SourceWait(p)
    \/ \E p \in Procs : SourcePost(p)
    \/ \E p \in Procs : SourceCrash(p)
    \/ \E p \in Procs : SourceQuit(p)
    \/ \E p \in Procs : SourceExit(p)

CrashSpec == Init /\ [][CrashNext]_vars

\* One sink and the sources, with their departures in two steps.  An endpoint
\* that arrives after the removal would create another segment; that
\* segment is not followed.
RemovalNext ==
    \/ removals = 0 /\ SinkBind(1)
    \/ SinkWait(1)
    \/ SinkPost(1)
    \/ SinkDepart(1)
    \/ SinkObserve(1)
    \/ \E p \in Procs : removals = 0 /\ SourceTouch(p)
    \/ \E p \in Procs : SourceConnect(p)
    \/ \E p \in Procs : SourceWait(p)
    \/ \E p \in Procs : SourcePost(p)
    \/ \E p \in Procs : SourceRelease(p)
    \/ \E p \in Procs : SourceObserve(p)

RemovalSpec == Init /\ [][RemovalNext]_vars

\* One sink and one Viewer on the node.
ViewerNext ==
    \/ SinkBind(1)
    \/ SinkWait(1)
    \/ SinkPost(1)
    \/ SinkDepart(1)
    \/ SourceTouch(ViewerProc)
    \/ SourceConnect(ViewerProc)
    \/ ViewerWait
    \/ ViewerCheck
    \/ ViewerRetrieve
    \/ ViewerPost
    \/ ViewerNotify
    \/ DisplayLoop
    \/ DisplayWait
    \/ DisplaySpurious
    \/ DisplayBegin
    \/ DisplayCall
    \/ DisplayEnd

ViewerSpec == Init /\ [][ViewerNext]_vars

\* The Viewer with its destructor.
ViewerDtorNext ==
    \/ SinkBind(1)
    \/ SinkWait(1)
    \/ SinkPost(1)
    \/ SinkDepart(1)
    \/ SourceTouch(ViewerProc)
    \/ SourceConnect(ViewerProc)
    \/ ViewerWait
    \/ ViewerCheck
    \/ ViewerRetrieve
    \/ ViewerPost
    \/ ViewerNotify
    \/ DisplayLoop
    \/ DisplayWait
    \/ DisplaySpurious
    \/ DisplayBegin
    \/ DisplayCall
    \/ DisplayEnd
    \/ ViewerStop
    \/ ViewerDtorNotify
    \/ ViewerJoin

ViewerDtorSpec == Init /\ [][ViewerDtorNext]_vars

\* Both threads of the Viewer take the steps they can take and display()
\* returns; a wait on the condition variable returns when it is notified (a
\* spurious wake-up may happen, none has to).
ViewerDtorLiveSpec ==
    /\ Init
    /\ [][ViewerDtorNext]_vars
    /\ WF_vars(ViewerCheck) /\ WF_vars(ViewerRetrieve)
    /\ WF_vars(ViewerPost) /\ WF_vars(ViewerNotify)
    /\ WF_vars(ViewerStop) /\ WF_vars(ViewerDtorNotify)
    /\ WF_vars(ViewerJoin)
    /\ WF_vars(DisplayLoop) /\ WF_vars(DisplayWait)
    /\ WF_vars(DisplayBegin) /\ WF_vars(DisplayCall)
    /\ WF_vars(DisplayEnd)

\* Viewer::process takes the steps it can take; the display thread may stay
\* inside display() for ever.
ViewerProcessSpec ==
    /\ Init
    /\ [][ViewerNext]_vars
    /\ WF_vars(ViewerCheck) /\ WF_vars(ViewerRetrieve)
    /\ WF_vars(ViewerPost) /\ WF_vars(ViewerNotify)

\* One sink upstream; a component with one source and the driver loop.
DrvNext ==
    \/ SinkBind(1)
    \/ SinkWait(1)
    \/ SinkPost(1)
    \/ SinkDepart(1)
    \/ SourceTouch(DrvProc)
    \/ SourceConnect(DrvProc)
    \/ DrvSigInt
    \/ DrvTest
    \/ DrvWait
    \/ DrvPost

DrvSpec == Init /\ [][DrvNext]_vars

\* The component takes the steps it can take; nothing is assumed of the
\* upstream sink, which may stay bound and publish nothing more.
DrvLiveSpec ==
    /\ Init
    /\ [][DrvNext]_vars
    /\ WF_vars(SourceTouch(DrvProc)) /\ WF_vars(SourceConnect(DrvProc))
    /\ WF_vars(DrvTest) /\ WF_vars(DrvWait) /\ WF_vars(DrvPost)

\* The graph: producers of "F" and "Q", the detector, the Decorator.
DecNext ==
    \/ \E n \in ProducerNodes : ProdBind(n)
    \/ \E n \in ProducerNodes : ProdWait(n)
    \/ \E n \in ProducerNodes : ProdPost(n)
    \/ \E n \in ProducerNodes : ProdDepart(n)
    \/ DetTouch
    \/ DetConnect
    \/ DetFrameWait
    \/ DetFramePost
    \/ DetSinkWait
    \/ DetSinkPost
    \/ DetExit
    \/ DecConfigure
    \/ DecTouch
    \/ DecConnectFrame
    \/ DecConnectPoses
    \/ DecFrameWait
    \/ DecFramePost
    \/ DecPoseWait
    \/ DecPosePost
    \/ DecSinkWait
    \/ DecSinkPost
    \/ DecExit

DecSpec == Init /\ [][DecNext]_vars

\* Fair scheduling: every process of the graph takes the steps it can take.
DecLiveSpec ==
    /\ Init
    /\ [][DecNext]_vars
    /\ \A n \in ProducerNodes :
          /\ WF_vars(ProdBind(n)) /\ WF_vars(ProdWait(n))
          /\ WF_vars(ProdPost(n)) /\ WF_vars(ProdDepart(n))
    /\ WF_vars(DetTouch) /\ WF_vars(DetConnect) /\ WF_vars(DetFrameWait)
    /\ WF_vars(DetFramePost) /\ WF_vars(DetSinkWait) /\ WF_vars(DetSinkPost)
    /\ WF_vars(DetExit)
    /\ WF_vars(DecConfigure) /\ WF_vars(DecTouch) /\ WF_vars(DecConnectFrame)
    /\ WF_vars(DecConnectPoses) /\ WF_vars(DecFrameWait)
    /\ WF_vars(DecFramePost) /\ WF_vars(DecPoseWait) /\ WF_vars(DecPosePost)
    /\ WF_vars(DecSinkWait) /\ WF_vars(DecSinkPost) /\ WF_vars(DecExit)

\* One sink upstream and the experimental client.
MatNext ==
    \/ SinkBind(1)
    \/ SinkWait(1)
    \/ SinkPost(1)
    \/ SinkDepart(1)
    \/ SourceTouch(MatProc)
    \/ MatSigInt
    \/ MatWait
    \/ MatTest
    \/ MatPost
    \/ MatExit

MatSpec == Init /\ [][MatNext]_vars

\* The recorder parses its two lists.
RecNext ==
    \/ RecParsePositions
    \/ RecParseFrames

RecSpec == Init /\ [][RecNext]_vars

\* A position is made and converted twice.
Position2DNext ==
    \/ P2Make
    \/ P2Convert
    \/ P2ConvertAgain

Position2DSpec == Init /\ [][Position2DNext]_vars

\* A DifferenceDetector is configured, fed frames and tuned.
DiffNext ==
    \/ DDConfigure
    \/ DDBlurSlider
    \/ DDApplyThreshold

DiffSpec == Init /\ [][DiffNext]_vars

\* A Decorator learns the frame width and encodes one sample count.
EncodeNext ==
    \/ EncConnect
    \/ EncEncode

EncodeSpec == Init /\ [][EncodeNext]_vars

\* One sink upstream, a FrameBuffer on the node, a second source next to it.
BufferNext ==
    \/ SinkBind(1)
    \/ SinkWait(1)
    \/ SinkPost(1)
    \/ SinkDepart(1)
    \/ SourceTouch(BufProc)
    \/ BufConnect
    \/ BufWait
    \/ BufPush
    \/ BufPost
    \/ BufNotify
    \/ BufShutdown
    \/ BufJoin
    \/ PopLoop
    \/ PopTimeout
    \/ PopSpurious
    \/ PopWake
    \/ PopCheck
    \/ PopSinkWait
    \/ PopPublish
    \/ DownConsume
    \/ SourceTouch(2)
    \/ SourceConnect(2)
    \/ SourceWait(2)
    \/ SourcePost(2)
    \/ SourceExit(2)

BufferSpec == Init /\ [][BufferNext]_vars

\* Both threads of the Buffer and the sources of the downstream node take the
\* steps they can take; a wait_for that is not notified times out.
BufferLiveSpec ==
    /\ Init
    /\ [][BufferNext]_vars
    /\ WF_vars(BufConnect) /\ WF_vars(BufWait) /\ WF_vars(BufPush)
    /\ WF_vars(BufPost) /\ WF_vars(BufNotify)
    /\ WF_vars(BufShutdown) /\ WF_vars(BufJoin)
    /\ WF_vars(PopLoop) /\ WF_vars(PopTimeout) /\ WF_vars(PopWake)
    /\ WF_vars(PopCheck) /\ WF_vars(PopSinkWait) /\ WF_vars(PopPublish)
    /\ WF_vars(DownConsume)

\* Only the upstream side is scheduled: the sink, the push thread and the
\* other source take the steps they can take; the pop thread and the
\* downstream node may stall for ever.
BufferPushSpec ==
    /\ Init
    /\ [][BufferNext]_vars
    /\ WF_vars(SinkWait(1)) /\ WF_vars(SinkPost(1))
    /\ WF_vars(BufConnect) /\ WF_vars(BufWait) /\ WF_vars(BufPush)
    /\ WF_vars(BufPost) /\ WF_vars(BufNotify)
    /\ WF_vars(SourceConnect(2)) /\ WF_vars(SourceWait(2))
    /\ WF_vars(SourcePost(2))

----
\* Properties

SinkInCS == \E k \in Sinks : spc[k] = "cs"

\* <<a+1, ..., a+n>>
Run(a, n) == [i \in 1..n |-> a + i]

\* C1: while the sink is inside its critical section (wait returned, post
\* not yet called) no attached source is inside its own, no attached source
\* is still owed a sample, and every source that was attached when the
\* current sample was published has observed and posted it.
C1_NoOverwriteUnderRead ==
    SinkInCS =>
        \A p \in Procs : Attached(p) =>
            /\ ~InSourceCS(p)
            /\ read_slot[slot[p]] = 0
            /\ att[p] < sample_number =>
                   (seen[p] # <<>> /\ Last(seen[p]) = sample_number)

C1_Witness ==
    /\ SinkInCS
    /\ sample_number >= 1
    /\ source_ref_count = MAX_SOURCES
    /\ \A p \in Procs : Attached(p) =>
           (seen[p] # <<>> /\ Last(seen[p]) = sample_number)

C3_Monotone ==
    [][/\ sample_number' >= sample_number
       /\ \A k \in Sinks : (spc[k] = "cs" /\ spc'[k] = "bound") =>
              sample_number' > sample_number
       /\ \A p \in Procs :
              (Len(seen'[p]) > Len(seen[p]) /\ seen[p] # <<>>) =>
                  Last(seen'[p]) > Last(seen[p])]_vars

C3_Witness == \E p \in Procs : Len(seen[p]) >= 2

\* C4: the payload is read only inside the reader's source critical section;
\* in the Viewer, the display thread reads *sample_ only while
\* Viewer::process is between wait() and post().
C4_ReadsInsideWindow == DisplayReadsPayload => InSourceCS(ViewerProc)

\* C5: once the sink has declared END, a source that is in (or about to call)
\* wait() eventually gets END back, and every wait after that returns END
\* too.
C5_EndDrains ==
    /\ \A p \in Procs :
           (sink_state = "END" /\ pc[p] = "ready") ~> (pc[p] = "eof")
    /\ [][\A p \in Procs :
              pc[p] = "eof" => pc'[p] \in {"eof", "gone"}]_vars

C5_Witness ==
    /\ sink_state = "END"
    /\ sample_number >= 1
    /\ \E p \in Procs : pc[p] = "eof" /\ seen[p] # <<>>

\* C6: when wait() returns END to a source that was attached before the
\* first publish, that source has consumed every sample the sink published.
C6_AllConsumedBeforeEnd ==
    [][\A p \in Procs :
           (pc[p] = "ready" /\ pc'[p] = "eof" /\ att[p] = 0) =>
               Len(seen[p]) = sample_number]_vars

\* C7: at most one sink is bound at any time, and a bind attempted on a BOUND
\* node fails with AlreadyBound and changes nothing in the header.
C7_SingleSink ==
    /\ [](Cardinality({k \in Sinks : spc[k] \in {"bound", "cs"}}) <= 1)
    /\ [][\A k \in Sinks :
              (sink_state = "BOUND" /\ spc[k] = "start" /\ spc'[k] # "start")
                  => /\ spc'[k] = "failed"
                     /\ sink_err'[k] = "AlreadyBound"
                     /\ UNCHANGED hdr]_vars

C7_Witness ==
    /\ sink_state = "BOUND"
    /\ \E k \in Sinks : sink_err[k] = "AlreadyBound"
    /\ \E k \in Sinks : spc[k] = "cs"

\* C8: source_ref_count counts the attached sources and stays within
\* 0..MAX_SOURCES; an attach attempted at MAX_SOURCES fails with Saturated and
\* changes neither the header (count, barriers) nor any other source.
C8_Saturation ==
    /\ [](/\ source_ref_count \in 0..MAX_SOURCES
          /\ source_ref_count = Cardinality({p \in Procs : Attached(p)}))
    /\ [][\A p \in Procs :
              (source_ref_count = MAX_SOURCES /\ pc[p] = "start"
                   /\ pc'[p] # "start")
                  => /\ pc'[p] = "failed"
                     /\ src_err'[p] = "Saturated"
                     /\ UNCHANGED <<hdr, slot, att, seen>>
                     /\ \A q \in Procs \ {p} : pc'[q] = pc[q]]_vars

C8_Witness ==
    /\ \E p \in Procs : src_err[p] = "Saturated"
    /\ source_ref_count = MAX_SOURCES
    /\ \A q \in Procs : Attached(q) => Len(seen[q]) = MaxSample

\* C9: sink_state starts UNDEFINED and only moves UNDEFINED -> BOUND -> END;
\* no sample is published on an UNDEFINED node.
C9_SinkStateMachine ==
    /\ sink_state = "UNDEFINED"
    /\ [](sample_number > 0 => sink_state # "UNDEFINED")
    /\ [][\/ sink_state' = sink_state
          \/ sink_state = "UNDEFINED" /\ sink_state' = "BOUND"
          \/ sink_state = "BOUND" /\ sink_state' = "END"]_vars

C9_Witness == sink_state = "END" /\ sample_number > 0

\* C10: a source that attached when sample_number was N first observes a
\* sample numbered at least N + 1, and no source, old or new, ever skips or
\* repeats a sample number.
C10_LateAttach ==
    \A p \in Procs :
        /\ seen[p] # <<>> => seen[p][1] >= att[p] + 1
        /\ \A i \in 1..(Len(seen[p]) - 1) : seen[p][i + 1] = seen[p][i] + 1

C10_Witness ==
    \E p, q \in Procs :
        /\ att[p] >= 1 /\ seen[p] # <<>>
        /\ att[q] = 0 /\ Attached(q) /\ Len(seen[q]) = sample_number

\* No endpoint is between wait and post.
OutsideCS == ~SinkInCS /\ \A p \in Procs : ~InSourceCS(p)

\* C11: read_barrier starts at 0 and write_barrier at MAX_SOURCES, and in
\* every state in which neither the sink nor any source is inside its
\* critical section, read_barrier + write_barrier is at most
\* MAX_SOURCES + source_ref_count.
C11_BarrierSum ==
    /\ read_barrier = 0
    /\ write_barrier = MAX_SOURCES
    /\ [](OutsideCS =>
             read_barrier + write_barrier <= MAX_SOURCES + source_ref_count)

C11_Witness ==
    /\ OutsideCS
    /\ sample_number >= 2
    /\ source_ref_count = MAX_SOURCES
    /\ read_barrier >= 1
    /\ write_barrier >= 1

\* C12: connect() returns only once the node is BOUND or END, and with
\* CONNECTED only if it is BOUND; a source is never connected, and
\* parameters() is never read (by Decorator::connectToNode on CONNECTED, by
\* FrameBuffer::connectToNode in any case), while payload_params is not yet
\* written by the sink.
C12_ConnectAfterParams ==
    /\ [](buf_params # <<{}>>)
    /\ [][\A p \in Procs :
              (pc[p] = "touched" /\ pc'[p] # "touched") =>
                  /\ sink_state \in {"BOUND", "END"}
                  /\ payload_params # {}
                  /\ pc'[p] \in {"ready", "eof"}
                  /\ (p # BufProc /\ sink_state = "END") => pc'[p] = "eof"]_vars

C12_Witness ==
    /\ buf_params \in {<<{k}>> : k \in Sinks}
    /\ pc[2] = "cs"
    /\ pc[BufProc] = "cs"

C14_StalledSourceStallsSink ==
    \A p \in Procs : pc[p] = "crashed" =>
        /\ ~SinkInCS
        /\ sample_number = Last(seen[p])
        /\ \A q \in Procs : seen[q] # <<>> => Last(seen[q]) <= Last(seen[p])

C14_Witness ==
    \E p, q \in Procs :
        /\ pc[p] = "crashed"
        /\ Last(seen[p]) >= 1
        /\ Last(seen[p]) < MaxSample
        /\ pc[q] = "ready" /\ Attached(q)
        /\ seen[q] # <<>> /\ Last(seen[q]) = Last(seen[p])
        /\ spc[1] = "bound"

\* C15: the segment is removed at most once, it is removed once the sink and
\* every source have left, a removal happens only when no sink and no source
\* is attached, and no endpoint uses the header after the removal.
C15_RemovedOnce ==
    /\ [](removals <= 1)
    /\ [](~stale_access)
    /\ []((spc[1] = "left" /\ \A p \in Procs : pc[p] = "left")
              => removals = 1)
    /\ [][removals' > removals =>
              /\ source_ref_count = 0
              /\ spc[1] \notin {"bound", "cs"}]_vars

IsIncreasing(s) == \A i \in 1..(Len(s) - 1) : s[i] < s[i + 1]

\* The samples the push thread has handed to the ring, in order.
Produced ==
    IF pc[BufProc] = "cs"
    THEN SubSeq(seen[BufProc], 1, Len(seen[BufProc]) - 1)
    ELSE seen[BufProc]

\* C16: a push on a full ring drops the oldest queued value, enqueues the new
\* one and adds one to the count of overruns.
C16_DropOldest ==
    [][(pc[BufProc] = "cs" /\ pc'[BufProc] = "pushed"
            /\ Len(buffer_) = BUFFSIZE)
          => /\ buffer_' = Append(Tail(buffer_), Last(seen[BufProc]))
             /\ cerr_overruns' = cerr_overruns + 1]_vars

\* C17: produced = consumed + dropped + queued, where the drops are the ones
\* reported (so every drop is reported, and produced = consumed + dropped when
\* the ring is empty), and the samples published downstream followed by the
\* queued ones are the produced ones, in their order, without the dropped.
C17_FifoAccounting ==
    /\ Len(Produced) = Len(out) + cerr_overruns + Len(buffer_)
    /\ buffer_ = <<>> => Len(Produced) = Len(out) + cerr_overruns
    /\ IsIncreasing(out \o buffer_)
    /\ Range(out \o buffer_) \subseteq Range(Produced)

C17_Witness ==
    /\ cerr_overruns >= 1
    /\ Len(out) >= 1
    /\ buffer_ # <<>>

\* C18: the pop thread ends, and END is declared on the downstream node, only
\* when the ring is empty: no queued sample is discarded at shutdown.
C18_DrainBeforeEnd ==
    (ppc = "exit" \/ down_state = "END") => buffer_ = <<>>

\* C19: every sample that was enqueued is eventually published downstream.
C19_EventuallyPublished ==
    \A n \in 1..MaxSample : (n \in Range(buffer_)) ~> (n \in Range(out))

\* C20: once source_.wait() has returned a sample, push reaches
\* source_.post() whatever the pop thread and the downstream node do, full
\* ring or not; and the upstream sink gets through its wait although the
\* downstream side is stalled.
C20_Decoupled ==
    /\ (pc[BufProc] = "cs") ~> (pc[BufProc] = "posted")
    /\ (spc[1] = "bound" /\ sample_number < MaxSample)
           ~> (spc[1] \in {"cs", "gone"})

C20_Witness ==
    /\ pc[BufProc] = "posted"
    /\ Len(buffer_) = BUFFSIZE
    /\ cerr_overruns >= 1
    /\ out = <<>>

\* C29: every wait() of Viewer::process that returns a sample is followed by
\* source_.post() in the same call, whatever the display thread does
\* (display() running or not, refresh needed or not).
C29_PostWithoutDisplay ==
    (pc[ViewerProc] = "cs") ~> (pc[ViewerProc] = "posted")

C29_Witness ==
    /\ pc[ViewerProc] = "posted"
    /\ dpc = "display"
    /\ ~refresh_needed
    /\ Len(seen[ViewerProc]) >= 2

\* C30: Viewer::process does not assign sample_ while the display thread is
\* inside display(*sample_).
C30_NoReassignDuringDisplay ==
    [][(pc[ViewerProc] = "checked" /\ pc'[ViewerProc] = "retrieved"
            /\ refresh_needed)
          => dpc # "display"]_vars

\* C21: when MaxSample samples have been pushed into a ring of BUFFSIZE slots
\* and nothing has been dequeued meanwhile, exactly MaxSample - BUFFSIZE
\* overruns have been reported, the ring holds BUFFSIZE of the samples in
\* their order, and from then on the downstream node gets to see exactly
\* those BUFFSIZE samples, in that order.
C21_BurstAbsorbed ==
    /\ [](Len(Produced) = MaxSample /\ out = <<>>
            => /\ cerr_overruns = MaxSample - BUFFSIZE
               /\ Len(buffer_) = BUFFSIZE
               /\ IsIncreasing(buffer_)
               /\ Range(buffer_) \subseteq Range(Produced))
    /\ \A q \in [1..BUFFSIZE -> 1..MaxSample] :
          (Len(Produced) = MaxSample /\ out = <<>> /\ buffer_ = q)
              ~> [](out = q)

\* C28: when connect() returns because the node is at END, connectToNode
\* does not bind the downstream sink and does not start the pop thread.
C28_NoBindOnEnd ==
    [][(pc[BufProc] = "touched" /\ pc'[BufProc] # "touched"
            /\ sink_state = "END")
          => /\ down_state' = down_state
             /\ ppc' = ppc]_vars

\* C22: process() is called only when the loop test found neither quit nor
\* source_eof; once a call has reported end-of-stream no further call is made;
\* when the test finds quit or source_eof, main leaves the loop and returns 0;
\* and nothing is called after that.
C22_EosEndsLoop ==
    [][/\ calls' # calls => (~quit /\ ~source_eof /\ calls' = calls + 1)
       /\ source_eof => (source_eof' /\ calls' = calls)
       /\ (rpc = "test" /\ rpc' # "test" /\ (quit \/ source_eof))
              => (rpc' = "exited" /\ exit_code' = <<0>>)
       /\ rpc = "exited"
              => (rpc' = "exited" /\ exit_code' = <<0>>
                      /\ calls' = calls)]_vars

C22_Witness ==
    /\ rpc = "exited"
    /\ exit_code = <<0>>
    /\ source_eof
    /\ ~quit
    /\ calls >= 2
    /\ Len(seen[DrvProc]) >= 1

\* C23: once the SIGINT handler has set quit, a component that is in its
\* processing loop eventually leaves it, also when it is inside source wait()
\* and the upstream sink publishes nothing more.
C23_QuitEndsLoop ==
    (quit /\ pc[DrvProc] \in {"ready", "cs", "eof"}) ~> (rpc = "exited")

\* C24: the Decorator is inside at most one node critical section at a time,
\* and it enters one (a source's by wait, the sink's by wait) only when it is
\* inside none: the critical section of each source is closed by its post
\* before the next wait, and the sink's pair comes after all of them.
C24_OneCriticalSection ==
    [][/\ Cardinality(DecHeld') <= 1
       /\ DecHeld' \ DecHeld # {} => DecHeld = {}]_vars

C24_Witness ==
    /\ DecHeld = {"D"}
    /\ Len(poses) = 2
    /\ n_ret0 >= 1

\* C25: process() has returned 1 exactly when one of its waits on the frame
\* source or a pose source returned END, and that call made no wait/post pair
\* on frame_sink_ and published nothing; it has returned 0 exactly when the
\* call made one wait/post pair on frame_sink_.
C25_ReturnValue ==
    /\ ret = <<1>> <=> saw_end
    /\ ret = <<1>> => sink_pairs = 0
    /\ ret = <<0>> <=> sink_pairs = 1
    /\ Len(published) = n_ret0
    /\ n_num["D"] = n_ret0

C25_Witness ==
    /\ ret = <<1>>
    /\ pose_i = 2
    /\ Len(dec_frames) = n_ret0 + 1
    /\ Len(dec_poses[1]) = n_ret0 + 1
    /\ n_ret0 >= 1

\* C26: when the k-th call of process() that returned 0 has returned, k
\* samples have been consumed from the frame source and from each pose source
\* and k frames have been published; the j-th published frame is built from
\* the j-th frame sample and the j-th sample of every pose source; inside a
\* call the pose sources are consumed in list order, after the frame.
C26_LockStep ==
    /\ Len(published) = n_ret0
    /\ (ret = <<0>> /\ decpc = "ready")
          => /\ Len(dec_frames) = n_ret0
             /\ \A i \in 1..Len(pose_sources_) : Len(dec_poses[i]) = n_ret0
    /\ \A j \in 1..Len(published) :
          /\ published[j][1] = dec_frames[j]
          /\ Len(published[j][2]) = Len(pose_sources_)
          /\ \A i \in 1..Len(pose_sources_) :
                published[j][2][i] = dec_poses[i][j]
    /\ Len(dec_frames) \in {n_ret0, n_ret0 + 1}
    /\ \A i \in 1..Len(pose_sources_) :
          /\ Len(dec_poses[i]) \in {n_ret0, n_ret0 + 1}
          /\ Len(dec_poses[i]) <= Len(dec_frames)
          /\ i > 1 => Len(dec_poses[i]) <= Len(dec_poses[i - 1])

C26_Witness ==
    /\ n_ret0 = MaxFrames
    /\ Len(pose_sources_) = 2
    /\ ret = <<0>>
    /\ decpc = "ready"

\* C27: in the diamond ("F" read by the detector and by the Decorator, "P"
\* published by the detector and read by the Decorator) no process gets
\* stuck: under fair scheduling the producer of "F" publishes all its frames
\* and departs, and the detector and the Decorator, once connected, go through
\* their iterations until they meet END and leave.
C27_DiamondProgress ==
    /\ (prodpc["F"] = "bound") ~> (prodpc["F"] = "gone")
    /\ (detpc = "ready") ~> (detpc = "gone")
    /\ (decpc = "ready") ~> (decpc = "gone")
    /\ \A j \in 1..MaxFrames :
          (n_num["F"] = j /\ "dec" \in n_rd["F"] /\ "det" \in n_rd["F"])
              ~> (n_state["F"] = "END"
                      \/ ("dec" \notin n_busy["F"] /\ "det" \notin n_busy["F"]))

C27_Witness ==
    /\ pose_sources_ = <<"P">>
    /\ n_ret0 = MaxFrames
    /\ n_num["P"] = MaxFrames
    /\ prodpc["F"] = "gone"
    /\ detpc = "gone"
    /\ decpc = "gone"

\* C31: once ~Viewer has set running_ to false, the display thread exits and
\* join returns, in every interleaving of the destructor with the display
\* thread's loop.
C31_DestructorTerminates ==
    (~running_) ~> (dpc = "exit" /\ pc[ViewerProc] = "gone")

\* C32: when the experimental client has left its loop, every wait that
\* returned a sample has been followed by a post: the client is inside no
\* critical section and the write token of its slot is back.
C32_PostsEveryWait ==
    pc[MatProc] = "left"
        => read_slot[slot[MatProc]] + write_slot[slot[MatProc]] > 0

\* No name occurs twice in s.
NoDuplicates(s) == \A i, j \in 1..Len(s) : s[i] = s[j] => i = j

\* The first occurrence of every name of s, in the order of s.
RECURSIVE FirstOccurrences(_)
FirstOccurrences(s) ==
    IF s = <<>> THEN <<>>
    ELSE LET r == FirstOccurrences(SubSeq(s, 1, Len(s) - 1))
         IN IF Last(s) \in Range(r) THEN r ELSE Append(r, Last(s))

\* C33: after parsing, neither list holds a name twice; each is the list of
\* first occurrences of the list given; and a warning was issued for a list
\* exactly when something was removed from it.
C33_ListsDeduplicated ==
    recpc = "parsed"
        => /\ NoDuplicates(position_sources)
           /\ NoDuplicates(frame_sources)
           /\ position_sources = FirstOccurrences(argv_positions)
           /\ frame_sources = FirstOccurrences(argv_frames)
           /\ "position sources" \in warnings
                  <=> Len(position_sources) # Len(argv_positions)
           /\ "frame sources" \in warnings
                  <=> Len(frame_sources) # Len(argv_frames)

\* C34: convertToWorldCoordinates leaves its receiver as it was; for a
\* receiver in PIXELS with a valid homography the value returned is in WORLD
\* with the receiver's validity flags and head direction, for any other
\* receiver it is the receiver's value; converting the value returned gives
\* that value again.
C34_ConvertPureIdempotent ==
    p2pc \in {"converted", "again"}
        => /\ p_this = p_before
           /\ IF p_before.coord_system = "PIXELS" /\ p_before.homography_valid
              THEN /\ p_ret.coord_system = "WORLD"
                   /\ p_ret.position_valid = p_before.position_valid
                   /\ p_ret.velocity_valid = p_before.velocity_valid
                   /\ p_ret.head_direction_valid = p_before.head_direction_valid
                   /\ p_ret.head_direction = p_before.head_direction
                   /\ p_ret.homography_valid = p_before.homography_valid
              ELSE p_ret = p_before
           /\ p2pc = "again" => p_ret = p_before

\* A position in PIXELS with a valid homography that moves points was
\* converted, and the value returned was converted again.
C34_Witness ==
    /\ p2pc = "again"
    /\ p_ret.coord_system = "WORLD"
    /\ p_ret.homography_valid
    /\ p_ret.position = <<3, 5>>
    /\ p_ret.velocity = <<2, 4>>

\* The frame passed to the latest call of applyThreshold and the one passed
\* to the call before it, read from the frames recorded after the call.
DDCurrent == dd_in'[Len(dd_in')]

DDPrevious == dd_in[Len(dd_in)]

\* C35, as stated: after every call last_image_ is the frame passed,
\* last_image_set_ never goes back to FALSE, and on every call but the first
\* threshold_frame_ is the thresholded absolute difference between the frame
\* passed and the frame passed to the call before.
C35_AsStated ==
    [][/\ last_image_set_ => last_image_set_'
       /\ dd_in' # dd_in
            => /\ last_image_set_'
               /\ last_image_' = DDCurrent
               /\ threshold_frame_' =
                     IF dd_in = <<>> THEN DDCurrent
                     ELSE threshold(absdiff(DDCurrent, DDPrevious),
                                    difference_intensity_threshold_)]_vars

\* C35, amended: after every call last_image_ is the frame passed,
\* last_image_set_ never goes back to FALSE, and on every call but the first
\* threshold_frame_ is the thresholded absolute difference between the frame
\* passed and the frame passed to the call before, box-filtered with
\* blur_size_ when blur_on_ is set.
C35_ComparesWithPrevious ==
    [][/\ last_image_set_ => last_image_set_'
       /\ dd_in' # dd_in
            => /\ last_image_set_'
               /\ last_image_' = DDCurrent
               /\ threshold_frame_' =
                     IF dd_in = <<>> THEN DDCurrent
                     ELSE LET t == threshold(absdiff(DDCurrent, DDPrevious),
                                             difference_intensity_threshold_)
                          IN IF blur_on_ THEN blur(t, blur_size_) ELSE t]_vars

\* Three frames were passed, the last two differ in one pixel, and the
\* filtered difference is held.
C35_Witness ==
    /\ Len(dd_in) = 3
    /\ dd_in[2] = <<0, 0>>
    /\ dd_in[3] = <<255, 0>>
    /\ last_image_ = <<255, 0>>
    /\ blur_on_
    /\ threshold_frame_ = <<128, 128>>

\* C37: blur_on_ is set only while blur_size_ has a positive width and a
\* positive height, after the constructor and after every call of
\* set_blur_size from the configuration or from the BLUR trackbar; a call
\* with a value of 0 leaves blur_on_ cleared.
C37_BlurOnHasSize ==
    /\ blur_on_ => blur_size_.width > 0 /\ blur_size_.height > 0
    /\ \A v \in (0 - 1)..0 : ~set_blur_size(v, blur_size_).blur_on_

\* The trackbar was moved to 0 with the blur on: the height was written, the
\* width kept, and the blur is off.
C37_Witness ==
    /\ ~blur_on_
    /\ blur_size_.height = 0
    /\ blur_size_.width > 0
    /\ dd_in # <<>>

\* Columns (counted from 0) of square k of the code.
Square(k) ==
    LET first == enc_frame.cols - EncodeBits * encode_bit_size_
                     + k * encode_bit_size_
    IN first..(first + encode_bit_size_ - 1)

\* Bit k of n.
Bit(n, k) == (n \div (2 ^ k)) % 2

\* The number read back from the squares: bit k is 1 when square k holds a
\* white pixel.
RECURSIVE ReadSampleNumber(_)
ReadSampleNumber(k) ==
    IF k = EncodeBits THEN 0
    ELSE (IF \E c \in Square(k) : enc_frame.pixels[c + 1] = 255 THEN 2 ^ k ELSE 0)
             + ReadSampleNumber(k + 1)

\* C36: after encodeSampleNumber returned, square k of side encode_bit_size_
\* starting at column cols - EncodeBits * encode_bit_size_ is white when bit k
\* of the sample count is 1 and black when it is 0, every square lies within
\* columns 0..cols, and the squares read back give the sample count.
C36_RoundTrip ==
    encpc = "encoded"
        => /\ \A k \in 0..(EncodeBits - 1) :
                 /\ Square(k) \subseteq 0..(enc_frame.cols - 1)
                 /\ \A c \in Square(k) :
                       enc_frame.pixels[c + 1]
                           = IF Bit(enc_frame.sample_count, k) = 1
                             THEN 255 ELSE 0
           /\ ReadSampleNumber(0) = enc_frame.sample_count

====
